---- MODULE Spec2Model ----
(***************************************************************************)
(* Model of the website monitor (monitor.py): load_config / load_state,    *)
(* the retrying page check check_one, and the polling loop monitor_loop    *)
(* with its per-target transition decision, evidence capture, alert        *)
(* notification and state persistence.                                     *)
(***************************************************************************)
EXTENDS Integers, Sequences, FiniteSets, TLC

VARIABLES
    config,       \* monitor_loop: config = load_config(), the validated target list
    state,        \* monitor_loop: the in-memory state map, url -> observation
    file,         \* the condition of STATE_FILE: "ok" (a complete JSON document, the
                  \* map disk), "missing", "bad_json" (cut short or otherwise not
                  \* JSON), "bad_utf8" (bytes that are no UTF-8 text)
    tmp,          \* STATE_FILE + ".tmp": <<>> when absent, else <<[whole, map]>>
    disk,         \* the content of STATE_FILE, url -> observation
    pc,           \* position of the single logical loop
    i,            \* index in config of the target being processed (for item in config)
    retry_count,  \* check_one: retry_count of the invocation currently executing
    attempts,     \* fetch attempts (browser launches) made in the current poll
    sleeps,       \* asyncio.sleep(wait_time) calls of check_one in the current poll
    exc,          \* the exception in flight / caught by monitor_loop's handlers
    res,          \* res = await check_one(pw, item): <<>> is "no result", else <<obs>>
    prev,         \* prev = state.get(url): <<>> is None, else <<obs>>
    changed,      \* monitor_loop: changed
    alert,        \* monitor_loop: alert
    evid,         \* what the evidence capture of the current poll did
    sent,         \* alert notifications (slack_post(msg)) sent in the current poll
    delivery,     \* what became of the last message given to slack_post since the
                  \* previous poll or pass ended: "none" (no message), "sent", "failed"
    elapsed,      \* whole hours from last_ping_time to now
    pings,        \* status digests sent in the current pass
    track,        \* which optional records this exploration keeps (never changes)
    sessions,     \* per invocation of check_one in the current poll: the browser and
                  \* context it acquired and those whose close was attempted
                  \* (kept when track has "sessions")
    page,         \* history: the snapshot read in the current poll (<<>>: none, or not kept)
    steady,       \* history: for the entries in its domain, the snapshot of the entry's
                  \* last stored poll, as long as its url has shown nothing else since
    heartbeat,    \* HEARTBEAT_FILE in the current tick: the calls of update_heartbeat,
                  \* what the last one did, and whether a handler of lines 397-409
                  \* has run in the tick (kept when track has "heartbeat")
    startups,     \* start-up messages given to slack_post in this process run
    cfg,          \* load_config: cfg = yaml.safe_load(f), the document in CONFIG_FILE
                  \* (NoDoc when the exploration starts after load_config)
    lost,         \* <<>>, or the alert whose notification had been attempted when the
                  \* process was killed before the save: the entry, the observation,
                  \* whether the file held the previous observation, and whether a
                  \* poll of the entry has been evaluated since (kept when track has
                  \* "restart", until the end of that poll)
    hc,           \* healthcheck.py: what a run of the script finds (HEARTBEAT_FILE,
                  \* POLL_SECONDS, current_time) and its exit status (NoCheck when
                  \* the exploration has no run of the script)
    trail         \* per entry of config, what its earlier polls of this run did: the
                  \* alerts given to slack_post for it (counted up to 2) and whether
                  \* the observation it stored last was one where every found
                  \* disappear marker had gone and no appear marker was found
                  \* (kept when track has "trail"); whether check_one has raised
                  \* for it since its last observation, that observation, and the
                  \* observation the entry itself put in the state map last
                  \* (kept when track has "polls")

vars == <<config, state, disk, pc, i, retry_count, attempts, sleeps, exc, res,
          prev, changed, alert, evid, sent, page, steady,
          track, sessions, delivery, file, tmp, elapsed, pings, heartbeat,
          startups, cfg, hc, lost, trail>>

-----------------------------------------------------------------------------
(* Bounds and input domains *)

\* largest number of entries in config/urls.yaml that is explored
MaxTargets == 2

\* check_one: max_retries = 3
max_retries == 3

\* monitor_loop: ping_interval_hours = 12
ping_interval_hours == 12

\* the hours from last_ping_time to now are counted up to this number
MaxHours == 13

\* text markers that a page snapshot may contain
Tokens == {"A", "B", "C"}

\* validated entries as load_config returns them: both lists, a disappear list
\* only (for the same url as T1), an appear list only
T1 == [url |-> "u1", search_text_disappears |-> <<"A", "B">>, search_text_appears |-> <<"C">>]
T2 == [url |-> "u1", search_text_disappears |-> <<"A">>, search_text_appears |-> <<>>]
T3 == [url |-> "u2", search_text_disappears |-> <<>>, search_text_appears |-> <<"C">>]

TargetSet == {T1, T2, T3}

\* an entry of an earlier configuration, whose observations may still be in the
\* state file when the process starts
T4 == [url |-> "u2", search_text_disappears |-> <<"A">>, search_text_appears |-> <<"C">>]

\* the snapshots get_text_snapshot can return for a url, each as the set of
\* tokens that occur in the text
Pages(u) == IF u = "u1" THEN SUBSET Tokens ELSE {{}, {"A"}, {"C"}}

\* load_config: a non-empty list of entries, each with at least one marker list
Configs == UNION {[1..n -> TargetSet] : n \in 1..MaxTargets}

-----------------------------------------------------------------------------
(* load_config, lines 54-105 *)

\* a YAML scalar string and a YAML sequence of strings
Str(s) == [kind |-> "str", v |-> s]
List(l) == [kind |-> "list", v |-> l]

\* no document: load_config has returned before the exploration starts
NoDoc == [k \in {} |-> 0]

\* a mapping with the key k absent, or present with a value of S
Opt(k, S) == {NoDoc} \cup {k :> v : v \in S}

\* the entries of urls that are explored: every combination of the five keys
\* load_config reads, each absent or present
RawEntries ==
    {a @@ b @@ c @@ d @@ e :
        a \in Opt("url", {"u1"}),
        b \in Opt("search_text", {Str("A"), List(<<>>), List(<<"B", "A">>)}),
        c \in Opt("mode", {"appears", "disappears", "bogus"}),
        d \in Opt("search_text_disappears",
                  {Str("A"), Str(""), List(<<>>), List(<<"B", "A">>)}),
        e \in Opt("search_text_appears", {Str("C"), List(<<>>), List(<<"C", "A">>)})}

\* an entry in the new format that load_config accepts
E0 == [url |-> "u2", search_text_appears |-> Str("C")]

\* the documents that are explored: no urls key, an empty list, one entry,
\* and an entry after a valid one
Docs ==
    {NoDoc, [urls |-> <<>>]}
        \cup {[urls |-> <<e>>] : e \in RawEntries}
        \cup {[urls |-> <<E0, e>>] : e \in RawEntries}

\* txt if isinstance(txt, list) else [txt]
AsList(txt) == IF txt.kind = "list" THEN txt.v ELSE <<txt.v>>

\* lines 67-68
has_old_format(it) == "search_text" \in DOMAIN it /\ "mode" \in DOMAIN it
has_new_format(it) ==
    "search_text_disappears" \in DOMAIN it \/ "search_text_appears" \in DOMAIN it

\* mutant: the old format's modes are taken the other way round
NormalDisappears_OtherMode(it) ==
    IF has_old_format(it)
      THEN IF it.mode = "appears" THEN AsList(it.search_text) ELSE <<>>
      ELSE IF "search_text_disappears" \in DOMAIN it
             THEN AsList(it.search_text_disappears)
             ELSE <<>>

\* lines 73-99: the two lists that are assigned to the entry
NormalDisappears(it) ==
    IF has_old_format(it)
      THEN IF it.mode = "disappears" THEN AsList(it.search_text) ELSE <<>>
      ELSE IF "search_text_disappears" \in DOMAIN it
             THEN AsList(it.search_text_disappears)
             ELSE <<>>

NormalAppears(it) ==
    IF has_old_format(it)
      THEN IF it.mode = "disappears" THEN <<>> ELSE AsList(it.search_text)
      ELSE IF "search_text_appears" \in DOMAIN it
             THEN AsList(it.search_text_appears)
             ELSE <<>>

\* mutant: a key that is missing is not added
Normalise_KeysAsGiven(it) ==
    [k \in DOMAIN it |->
        IF k = "search_text_disappears" THEN NormalDisappears(it)
        ELSE IF k = "search_text_appears" THEN NormalAppears(it)
        ELSE it[k]]

\* the entry after the loop body: the two keys are set, every other key stays
Normalise(it) ==
    [k \in DOMAIN it \cup {"search_text_disappears", "search_text_appears"} |->
        IF k = "search_text_disappears" THEN NormalDisappears(it)
        ELSE IF k = "search_text_appears" THEN NormalAppears(it)
        ELSE it[k]]

\* mutant: the mode is not validated, any mode but 'disappears' is 'appears'
EntryRaises_AnyMode(it) ==
    \/ "url" \notin DOMAIN it
    \/ ~has_old_format(it) /\ ~has_new_format(it)
    \/ NormalDisappears(it) = <<>> /\ NormalAppears(it) = <<>>

\* the ValueErrors of the loop body, lines 61-62, 70-71, 75-76, 102-103
EntryRaises(it) ==
    \/ "url" \notin DOMAIN it
    \/ ~has_old_format(it) /\ ~has_new_format(it)
    \/ has_old_format(it) /\ it.mode \notin {"appears", "disappears"}
    \/ NormalDisappears(it) = <<>> /\ NormalAppears(it) = <<>>

\* items = cfg.get("urls", [])
items(doc) == IF "urls" \in DOMAIN doc THEN doc.urls ELSE <<>>

\* load_config raises: the assert of line 58 or a ValueError of the loop
load_config_raises(doc) ==
    \/ items(doc) = <<>>
    \/ \E k \in 1..Len(items(doc)) : EntryRaises(items(doc)[k])

\* return items: every entry normalised in place
load_config(doc) == [k \in 1..Len(items(doc)) |-> Normalise(items(doc)[k])]

-----------------------------------------------------------------------------
(* Exceptions *)

\* what a fetch attempt may raise: PlaywrightError with a crash message,
\* PlaywrightError with another message, PlaywrightTimeoutError,
\* asyncio.TimeoutError, OSError, any other Exception
FetchErrors == {"crash", "playwright", "pw_timeout", "timeout", "os", "other"}

\* isinstance(e, PlaywrightError); PlaywrightTimeoutError is a subclass of it
IsPlaywrightError(e) == e \in {"crash", "playwright", "pw_timeout"}

\* mutant: the message is not inspected, every PlaywrightError counts as a crash
IsCrashMsg_Any(e) == TRUE

\* "Target page, context or browser has been closed" in error_msg or "SIGTRAP" in error_msg
IsCrashMsg(e) == e = "crash"

-----------------------------------------------------------------------------
(* Pure helpers *)

\* [txt for txt in lst if txt in snapshot]; the empty string occurs in every text
Found(lst, snapshot) == SelectSeq(lst, LAMBDA txt : txt = "" \/ txt \in snapshot)

\* hsh(snapshot), line 148: sha256 has no collisions among the snapshots, the
\* digest is the snapshot itself; it is recorded when track has "hash"
hsh(snapshot) == IF "hash" \in track THEN snapshot ELSE {}

\* the dict check_one returns, lines 203-213; monitor_loop's decisions read the
\* two found lists only; timestamp and snippet change with the poll and the
\* snapshot like the hash and are left out
Observation(it, snapshot) ==
    [url |-> it.url,
     found_disappears |-> Found(it.search_text_disappears, snapshot),
     found_appears |-> Found(it.search_text_appears, snapshot),
     hash |-> hsh(snapshot)]

\* the empty dict {}
EmptyMap == [u \in {} |-> 0]

\* state[url] = res
Put(st, url, obs) == [u \in (DOMAIN st) \cup {url} |-> IF u = url THEN obs ELSE st[u]]

item == config[i]
url == item.url

\* the urls of a configuration
UrlsOf(conf) == {conf[k].url : k \in 1..Len(conf)}

\* the entries for the url u in the configuration of an earlier run: those of
\* conf, or the entry that conf has replaced
EarlierTargets(conf, u) ==
    {conf[k] : k \in {j \in 1..Len(conf) : conf[j].url = u}} \cup {t \in {T4} : t.url = u}

\* every observation of the url u that an earlier run can have produced
ObsOf(conf, u) == {Observation(t, s) : t \in EarlierTargets(conf, u), s \in Pages(u)}

\* the state files an earlier run can have left for the urls of conf
StateFiles(conf) ==
    UNION {{f \in [D -> UNION {ObsOf(conf, u) : u \in D}] : \A u \in D : f[u] \in ObsOf(conf, u)}
             : D \in SUBSET UrlsOf(conf)}

\* a poll of the entry of an interrupted alert is evaluated
PollSeen(l) == IF l # <<>> /\ l[1].i = i THEN <<[l[1] EXCEPT !.seen = TRUE]>> ELSE l

\* the end of a target's step: an interrupted alert is no longer kept once a
\* poll of its entry has been evaluated
PollDone(l) == IF l # <<>> /\ l[1].seen THEN <<>> ELSE l

\* the record of the entries' earlier polls at the start of a run
NoTrail ==
    IF track \cap {"trail", "polls"} # {}
      THEN [k \in 1..Len(config) |->
               [alerts |-> 0, vanished |-> FALSE, failed |-> FALSE, last |-> <<>>,
                kept |-> <<>>]]
      ELSE EmptyMap

\* lines 397-409: check_one of the current entry raised into monitor_loop
Failed(tr) ==
    IF "polls" \in track THEN [tr EXCEPT ![i].failed = TRUE] ELSE tr

\* lines 284 and 394: the current entry has put its observation in the state map
Kept(tr) ==
    IF "polls" \in track THEN [tr EXCEPT ![i].kept = res] ELSE tr

\* lines 266-273: the step of the current entry is over; when check_one returned
\* in it, its observation is the entry's latest one
PollOver(tr) ==
    IF "polls" \in track /\ res # <<>>
      THEN [tr EXCEPT ![i].failed = FALSE, ![i].last = res]
      ELSE tr

\* lines 364-391: one more alert of the current entry was given to slack_post
Alerted(tr) ==
    IF "trail" \in track
      THEN [tr EXCEPT ![i].alerts = IF @ < 2 THEN @ + 1 ELSE @]
      ELSE tr

\* lines 393-395: the current entry stored c over p without an alert; vanished
\* tells whether p had found disappear markers and c found no marker at all
Stored(tr, p, c, al) ==
    IF "trail" \in track
      THEN [tr EXCEPT ![i].vanished = /\ ~al
                                      /\ p.found_disappears # <<>>
                                      /\ c.found_disappears = <<>>
                                      /\ c.found_appears = <<>>]
      ELSE tr

\* no run of healthcheck.py
NoCheck == [k \in {} |-> 0]

\* no call of update_heartbeat and no handled exception yet in this tick
NoBeat == [writes |-> 0, outcome |-> "none", errors |-> FALSE]

\* lines 397-409: one of the handlers has run for the target just processed
TargetDone(hb, e) ==
    IF "heartbeat" \in track THEN [hb EXCEPT !.errors = @ \/ e # "none"] ELSE hb

\* lines 26-33: the timestamp is written to HEARTBEAT_FILE; an Exception is
\* caught and logged as WARN
update_heartbeat(ok) ==
    heartbeat' = IF "heartbeat" \in track
                   THEN [heartbeat EXCEPT !.writes = @ + 1,
                                          !.outcome = IF ok THEN "written" ELSE "warned"]
                   ELSE heartbeat

-----------------------------------------------------------------------------
(* Initial state: the process is about to start with a valid configuration *)

ResetPoll ==
    /\ retry_count' = 0
    /\ attempts' = 0
    /\ sleeps' = <<>>
    /\ exc' = "none"
    /\ res' = <<>>
    /\ prev' = <<>>
    /\ changed' = FALSE
    /\ alert' = FALSE
    /\ evid' = "none"
    /\ sent' = 0
    /\ page' = <<>>
    /\ sessions' = <<>>

\* the variables of monitor_loop and check_one before the first statement
InitLocals ==
    /\ state = EmptyMap
    /\ i = 1
    /\ retry_count = 0
    /\ attempts = 0
    /\ sleeps = <<>>
    /\ exc = "none"
    /\ res = <<>>
    /\ prev = <<>>
    /\ changed = FALSE
    /\ alert = FALSE
    /\ evid = "none"
    /\ sent = 0
    /\ page = <<>>
    /\ sessions = <<>>
    /\ delivery = "none"
    /\ tmp = <<>>
    /\ elapsed = 0
    /\ pings = 0
    /\ heartbeat = NoBeat
    /\ startups = 0
    /\ hc = NoCheck
    /\ lost = <<>>
    /\ trail = NoTrail

\* everything but the choice of the optional records: load_config has returned
InitProgram ==
    /\ config \in Configs
    /\ disk \in StateFiles(config)
    /\ pc = "start"
    /\ cfg = NoDoc
    /\ InitLocals

\* no per-entry history is kept
Init == file = "ok" /\ track = {} /\ InitProgram /\ steady = EmptyMap

\* the history of every entry is kept
HistInit == file = "ok" /\ track = {} /\ InitProgram /\ steady = [k \in 1..Len(config) |-> <<>>]

-----------------------------------------------------------------------------
(* monitor_loop, lines 243-265: load_config, load_state, start-up message *)

\* lines 42-44: open(STATE_FILE) and json.load(f) raise an exception that
\* load_state does not catch (UnicodeDecodeError is a ValueError, but no
\* json.JSONDecodeError)
load_state_raises == file = "bad_utf8"

\* load_state: the content of STATE_FILE, {} for FileNotFoundError and
\* json.JSONDecodeError
load_state == IF file = "ok" THEN disk ELSE EmptyMap

\* slack_post(text): the message is delivered (or printed, when SLACK_WEBHOOK
\* is not set), or the delivery fails (an exception, or HTTP status >= 300) and
\* the failure is logged; nothing is raised and nothing is returned
slack_post(ok) == delivery' = IF ok THEN "sent" ELSE "failed"

Startup ==
    /\ pc = "start"
    /\ ~load_state_raises
    /\ \E ok \in BOOLEAN : slack_post(ok)
    /\ startups' = startups + 1
    /\ state' = load_state
    /\ pc' = "fetch"
    /\ i' = 1
    /\ ResetPoll
    /\ UNCHANGED <<config, disk, steady, track, tmp, file, elapsed, pings,
                   heartbeat, cfg, hc, lost, trail>>

-----------------------------------------------------------------------------
(* check_one: the browser and the context of an invocation *)

\* what an invocation holds when its attempt ends: browser = None, context = None
\* (launch did not return), the browser only, or the browser and its context
Held == {{}, {"browser"}, {"browser", "context"}}

\* the outcomes that are explored: all of them when the sessions are recorded
HeldChoices == IF "sessions" \in track THEN Held ELSE {{}}

\* a new invocation's record
Frame(h) ==
    IF "closing" \in track
      THEN [acquired |-> h, closed |-> {}, failed |-> {}]
      ELSE [acquired |-> h, closed |-> {}]

\* the record of the current invocation is added when its attempt ends
Enter(h) == IF "sessions" \in track THEN Append(sessions, Frame(h)) ELSE sessions

\* mutant: the finally clause closes the context and forgets the browser
Finally_ContextOnly(fr) == [fr EXCEPT !.closed = fr.acquired \cap {"context"}]

\* lines 228-240: "if context: await context.close()" and "if browser: await
\* browser.close()", each in its own try, so both closes are attempted
Finally(fr) == [fr EXCEPT !.closed = fr.acquired]

\* a return value or an exception leaves every invocation of the call
Unwind(frames) == [k \in DOMAIN frames |-> Finally(frames[k])]

-----------------------------------------------------------------------------
(* check_one: one fetch attempt of the invocation with the current retry_count *)

\* lines 174-191: launch, new_context, new_page, goto, cookie banners and the
\* wait all succeeded
FetchSuccess ==
    /\ pc = "fetch"
    /\ attempts' = attempts + 1
    /\ sessions' = Enter({"browser", "context"})
    /\ pc' = "loaded"
    /\ UNCHANGED <<config, state, disk, i, retry_count, sleeps, exc, res, prev,
                   changed, alert, evid, sent, page, steady, track, delivery,
                   tmp, file, elapsed, pings, heartbeat, startups, cfg, hc,
                   lost, trail>>

\* mutant: off by one, retry_count <= max_retries
RetryAllowed_OneMore(e, rc) == IsPlaywrightError(e) /\ IsCrashMsg(e) /\ rc <= max_retries

\* except PlaywrightError, crash message: retry_count < max_retries?
RetryAllowed(e, rc) == IsPlaywrightError(e) /\ IsCrashMsg(e) /\ rc < max_retries

\* wait_time = 2 ** retry_count
wait_time(rc) == 2 ^ rc

\* a crash with retries left: the except block logs and awaits
\* asyncio.sleep(wait_time); e is the exception being handled
FetchCrashRetry ==
    /\ pc = "fetch"
    /\ \E e \in FetchErrors :
          /\ RetryAllowed(e, retry_count)
          /\ exc' = e
          /\ sleeps' = Append(sleeps, wait_time(retry_count))
    /\ \E h \in HeldChoices : sessions' = Enter(h)
    /\ attempts' = attempts + 1
    /\ pc' = "backoff"
    /\ UNCHANGED <<config, state, disk, i, retry_count, res, prev, changed, alert,
                   evid, sent, page, steady, track, delivery, tmp, file,
                   elapsed, pings, heartbeat, startups, cfg, hc, lost, trail>>

\* any other failure of the attempt is raised to the caller of this invocation
FetchRaise ==
    /\ pc = "fetch"
    /\ \E e \in FetchErrors :
          /\ ~RetryAllowed(e, retry_count)
          /\ exc' = e
    /\ \E h \in HeldChoices : sessions' = Enter(h)
    /\ attempts' = attempts + 1
    /\ pc' = "raise"
    /\ UNCHANGED <<config, state, disk, i, retry_count, sleeps, res, prev,
                   changed, alert, evid, sent, page, steady, track, delivery,
                   tmp, file, elapsed, pings, heartbeat, startups, cfg, hc,
                   lost, trail>>

\* the sleep is over: return await check_one(pw, item, retry_count + 1)
BackoffDone ==
    /\ pc = "backoff"
    /\ retry_count' = retry_count + 1
    /\ pc' = "fetch"
    /\ UNCHANGED <<config, state, disk, i, attempts, sleeps, exc, res, prev,
                   changed, alert, evid, sent, page, steady, track, sessions,
                   delivery, tmp, file, elapsed, pings, heartbeat, startups,
                   cfg, hc, lost, trail>>

\* does the invocation rc, suspended in its except block at line 222, catch the
\* exception e that its retry raised? No: an exception raised inside a handler
\* leaves the try statement (only the finally clause runs).
EnclosingCatches(e, rc) == FALSE

\* the invocations enclosing the one that raised which would catch e
CatchingFrames(e, rc) == {k \in 0..(rc - 1) : EnclosingCatches(e, k)}

\* mutant: the retry's result is dropped ("await check_one(...)" without return),
\* an invocation that retried returns None
CheckOneReturns_RetryLost ==
    /\ pc = "loaded"
    /\ \E snapshot \in Pages(url) :
          /\ res' = IF retry_count > 0 THEN <<>> ELSE <<Observation(item, snapshot)>>
          /\ page' = IF DOMAIN steady = {} THEN <<>> ELSE <<snapshot>>
    /\ sessions' = Unwind(sessions)
    /\ pc' = IF retry_count > 0 THEN "next" ELSE "evaluate"
    /\ retry_count' = 0
    /\ attempts' = 0
    /\ sleeps' = <<>>
    /\ exc' = "none"
    /\ UNCHANGED <<config, state, disk, i, prev, changed, alert, evid, sent,
                   steady, track, delivery, tmp, file, elapsed, pings,
                   heartbeat, startups, cfg, hc, lost, trail>>

\* lines 193-213: the snapshot is read and evaluated, and the observation passes
\* up through every enclosing invocation (each runs its finally clause) to
\* monitor_loop, line 273; check_one's locals are gone
CheckOneReturns ==
    /\ pc = "loaded"
    /\ \E snapshot \in Pages(url) :
          /\ res' = <<Observation(item, snapshot)>>
          /\ page' = IF DOMAIN steady = {} THEN <<>> ELSE <<snapshot>>
          /\ steady' = [k \in DOMAIN steady |->
                           IF config[k].url = url /\ steady[k] # <<snapshot>>
                             THEN <<>>
                             ELSE steady[k]]
    /\ sessions' = Unwind(sessions)
    /\ pc' = "evaluate"
    /\ retry_count' = 0
    /\ attempts' = 0
    /\ sleeps' = <<>>
    /\ exc' = "none"
    /\ UNCHANGED <<config, state, disk, i, prev, changed, alert, evid, sent,
                   track, delivery, tmp, file, elapsed, pings, heartbeat,
                   startups, cfg, hc, lost, trail>>

\* mutant: the handlers leave the for loop (break), the rest of the pass is skipped
CheckOneRaises_Break ==
    /\ pc = "raise"
    /\ pc' = "next"
    /\ sessions' = Unwind(sessions)
    /\ i' = Len(config)
    /\ retry_count' = 0
    /\ attempts' = 0
    /\ sleeps' = <<>>
    /\ UNCHANGED <<config, state, disk, exc, res, prev, changed, alert, evid,
                   sent, page, steady, track, delivery, tmp, file, elapsed,
                   pings, heartbeat, startups, cfg, hc, lost, trail>>

\* mutant: no handler catches the exception, it ends monitor_loop
CheckOneRaises_Uncaught ==
    /\ pc = "raise"
    /\ pc' = "dead"
    /\ sessions' = Unwind(sessions)
    /\ UNCHANGED <<config, state, disk, i, retry_count, attempts, sleeps, exc,
                   res, prev, changed, alert, evid, sent, page, steady, track,
                   delivery, tmp, file, elapsed, pings, heartbeat, startups,
                   cfg, hc, lost, trail>>

\* the exception passes up through every enclosing invocation (each runs its
\* finally clause) to monitor_loop, whose except clauses (lines 397-409) log it,
\* and the for loop goes on
CheckOneRaises ==
    /\ pc = "raise"
    /\ IF CatchingFrames(exc, retry_count) = {}
          THEN /\ pc' = "next"
               /\ retry_count' = 0
               /\ attempts' = 0
               /\ sleeps' = <<>>
               /\ exc' = exc
               /\ sessions' = Unwind(sessions)
          ELSE LET k == CHOOSE f \in CatchingFrames(exc, retry_count) :
                            \A g \in CatchingFrames(exc, retry_count) : g <= f
               IN  /\ pc' = "backoff"
                   /\ retry_count' = k
                   /\ attempts' = attempts
                   /\ sleeps' = Append(sleeps, wait_time(k))
                   /\ exc' = exc
                   /\ sessions' = [j \in DOMAIN sessions |->
                                     IF j > k + 1 THEN Finally(sessions[j])
                                                  ELSE sessions[j]]
    /\ trail' = IF CatchingFrames(exc, retry_count) = {} THEN Failed(trail) ELSE trail
    /\ UNCHANGED <<config, state, disk, i, res, prev, changed, alert, evid, sent,
                   page, steady, track, delivery, tmp, file, elapsed, pings,
                   heartbeat, startups, cfg, hc, lost>>

-----------------------------------------------------------------------------
(* save_state and the steps of monitor_loop after a successful check_one *)

\* mutant: the save writes the entry of the current target only
SaveState_EntryOnly(st, ok) ==
    /\ disk' = IF ok THEN [u \in {url} |-> st[u]] ELSE disk
    /\ file' = IF ok THEN "ok" ELSE file
    /\ exc' = IF ok THEN "none" ELSE "os"

\* save_state(state): the file holds the whole map after os.replace; a failure
\* (OSError) leaves the file as it was and is caught at lines 406-407
SaveState(st, ok) ==
    /\ disk' = IF ok THEN st ELSE disk
    /\ file' = IF ok THEN "ok" ELSE file
    /\ exc' = IF ok THEN "none" ELSE "os"

\* mutant: only the found disappear markers are compared
Changed_DisappearsOnly(p, c) == p.found_disappears # c.found_disappears

\* lines 292-293
Changed(p, c) ==
    \/ p.found_disappears # c.found_disappears
    \/ p.found_appears # c.found_appears

\* mutant: the previous observation is not looked at
disappears_satisfied_CurrOnly(it, p, c) ==
    IF it.search_text_disappears # <<>>
      THEN Len(c.found_disappears) = 0
      ELSE TRUE

\* mutant: some marker gone is enough
disappears_satisfied_Some(it, p, c) ==
    IF it.search_text_disappears # <<>>
      THEN Len(p.found_disappears) > 0 /\ Len(c.found_disappears) < Len(p.found_disappears)
      ELSE TRUE

\* lines 302-306
disappears_satisfied(it, p, c) ==
    IF it.search_text_disappears # <<>>
      THEN Len(p.found_disappears) > 0 /\ Len(c.found_disappears) = 0
      ELSE TRUE

\* mutant: the test "if appears_list" is missing
appears_satisfied_Always(it, p, c) ==
    Len(p.found_appears) = 0 /\ Len(c.found_appears) > 0

\* lines 309-313
appears_satisfied(it, p, c) ==
    IF it.search_text_appears # <<>>
      THEN Len(p.found_appears) = 0 /\ Len(c.found_appears) > 0
      ELSE TRUE

\* lines 295-317: alert is computed only when changed
AlertDecision(it, p, c) ==
    IF Changed(p, c)
      THEN disappears_satisfied(it, p, c) /\ appears_satisfied(it, p, c)
      ELSE FALSE

\* mutant: prev = state.get(url, {}), a missing entry is compared like an
\* observation that found nothing
Baseline_EmptyPrev ==
    /\ pc = "evaluate"
    /\ url \notin DOMAIN state
    /\ LET none == [url |-> url, found_disappears |-> <<>>, found_appears |-> <<>>,
                    hash |-> {}]
       IN  /\ prev' = <<none>>
           /\ changed' = Changed(none, res[1])
           /\ alert' = AlertDecision(item, none, res[1])
    /\ pc' = IF ~changed' THEN "next" ELSE IF alert' THEN "evidence" ELSE "persist"
    /\ lost' = PollSeen(lost)
    /\ UNCHANGED <<config, state, disk, i, retry_count, attempts, sleeps, exc,
                   res, evid, sent, page, steady, track, sessions, delivery,
                   tmp, file, elapsed, pings, heartbeat, startups, cfg, hc,
                   trail>>

\* lines 276-286: prev is None
Baseline ==
    /\ pc = "evaluate"
    /\ url \notin DOMAIN state
    /\ state' = Put(state, url, res[1])
    /\ \E ok \in BOOLEAN : SaveState(state', ok)
    /\ pc' = "next"
    /\ steady' = [k \in DOMAIN steady |-> IF k = i THEN page ELSE steady[k]]
    /\ page' = page
    /\ lost' = PollSeen(lost)
    /\ trail' = Kept(trail)
    /\ UNCHANGED <<config, i, retry_count, attempts, sleeps, res, prev, changed,
                   alert, evid, sent, track, sessions, delivery, tmp, elapsed,
                   pings, heartbeat, startups, cfg, hc>>

\* mutant: a target that has alerted in this run is not alerted for again
Decide_Suppressed ==
    /\ pc = "evaluate"
    /\ url \in DOMAIN state
    /\ prev' = <<state[url]>>
    /\ changed' = Changed(state[url], res[1])
    /\ alert' = (AlertDecision(item, state[url], res[1]) /\ trail[i].alerts = 0)
    /\ pc' = IF ~changed' THEN "next" ELSE IF alert' THEN "evidence" ELSE "persist"
    /\ lost' = PollSeen(lost)
    /\ UNCHANGED <<config, state, disk, i, retry_count, attempts, sleeps, exc,
                   res, evid, sent, page, steady, track, sessions, delivery,
                   tmp, file, elapsed, pings, heartbeat, startups, cfg, hc,
                   trail>>

\* mutant: the observation is stored and saved when the change is seen, before
\* the evidence capture and the notification
Decide_StoreFirst ==
    /\ pc = "evaluate"
    /\ url \in DOMAIN state
    /\ prev' = <<state[url]>>
    /\ changed' = Changed(state[url], res[1])
    /\ alert' = AlertDecision(item, state[url], res[1])
    /\ state' = IF changed' THEN Put(state, url, res[1]) ELSE state
    /\ disk' = IF changed' THEN state' ELSE disk
    /\ pc' = IF ~changed' THEN "next" ELSE IF alert' THEN "evidence" ELSE "next"
    /\ lost' = PollSeen(lost)
    /\ UNCHANGED <<config, i, retry_count, attempts, sleeps, exc, res, evid, sent,
                   page, steady, track, sessions, delivery, tmp, file, elapsed,
                   pings, heartbeat, startups, cfg, hc, trail>>

\* lines 288-319: prev is an observation; everything from line 296 to line 395
\* is inside "if changed:", an unchanged poll goes on with the next target
Decide ==
    /\ pc = "evaluate"
    /\ url \in DOMAIN state
    /\ prev' = <<state[url]>>
    /\ changed' = Changed(state[url], res[1])
    /\ alert' = AlertDecision(item, state[url], res[1])
    /\ pc' = IF ~changed' THEN "next" ELSE IF alert' THEN "evidence" ELSE "persist"
    /\ lost' = PollSeen(lost)
    /\ UNCHANGED <<config, state, disk, i, retry_count, attempts, sleeps, exc,
                   res, evid, sent, page, steady, track, sessions, delivery,
                   tmp, file, elapsed, pings, heartbeat, startups, cfg, hc,
                   trail>>

\* line 320: os.makedirs is outside the try statement, its OSError reaches
\* the handler at lines 406-407
EvidenceMkdirFails ==
    /\ pc = "evidence"
    /\ evid' = "mkdir_failed"
    /\ exc' = "os"
    /\ pc' = "next"
    /\ UNCHANGED <<config, state, disk, i, retry_count, attempts, sleeps, res,
                   prev, changed, alert, sent, page, steady, track, sessions,
                   delivery, tmp, file, elapsed, pings, heartbeat, startups,
                   cfg, hc, lost, trail>>

\* lines 321-361: the screenshot session; its failures are caught and logged
EvidenceCapture ==
    /\ pc = "evidence"
    /\ \E ok \in BOOLEAN : evid' = IF ok THEN "saved" ELSE "failed"
    /\ pc' = "notify"
    /\ UNCHANGED <<config, state, disk, i, retry_count, attempts, sleeps, exc,
                   res, prev, changed, alert, sent, page, steady, track,
                   sessions, delivery, tmp, file, elapsed, pings, heartbeat,
                   startups, cfg, hc, lost, trail>>

\* mutant: slack_post lets a delivery failure out; it reaches the handlers of
\* monitor_loop and the observation is not stored
Notify_Raises ==
    /\ pc = "notify"
    /\ \E ok \in BOOLEAN :
          /\ slack_post(ok)
          /\ pc' = IF ok THEN "persist" ELSE "next"
          /\ exc' = IF ok THEN exc ELSE "other"
    /\ sent' = sent + 1
    /\ UNCHANGED <<config, state, disk, i, retry_count, attempts, sleeps, res,
                   prev, changed, alert, evid, page, steady, track, sessions,
                   tmp, file, elapsed, pings, heartbeat, startups, cfg, hc,
                   lost, trail>>

\* lines 364-391: await slack_post(msg); a delivery failure is logged inside
Notify ==
    /\ pc = "notify"
    /\ \E ok \in BOOLEAN : slack_post(ok)
    /\ sent' = sent + 1
    /\ pc' = "persist"
    /\ trail' = Alerted(trail)
    /\ UNCHANGED <<config, state, disk, i, retry_count, attempts, sleeps, exc,
                   res, prev, changed, alert, evid, page, steady, track,
                   sessions, tmp, file, elapsed, pings, heartbeat, startups,
                   cfg, hc, lost>>

\* mutant: the observation is stored only after an alert; a change that does
\* not alert leaves state[url] as it was
Persist_AlertOnly ==
    /\ pc = "persist"
    /\ state' = IF alert THEN Put(state, url, res[1]) ELSE state
    /\ \E ok \in BOOLEAN : SaveState(state', ok)
    /\ pc' = "next"
    /\ steady' = [k \in DOMAIN steady |-> IF k = i THEN page ELSE steady[k]]
    /\ page' = page
    /\ trail' = Stored(trail, prev[1], res[1], alert)
    /\ UNCHANGED <<config, i, retry_count, attempts, sleeps, res, prev, changed,
                   alert, evid, sent, track, sessions, delivery, tmp, elapsed,
                   pings, heartbeat, startups, cfg, hc, lost>>

\* mutant: the map is saved before it is changed in memory, a failed write
\* leaves the state map without the observation
Persist_SaveFirst ==
    /\ pc = "persist"
    /\ \E ok \in BOOLEAN :
          /\ SaveState(Put(state, url, res[1]), ok)
          /\ state' = IF ok THEN Put(state, url, res[1]) ELSE state
    /\ pc' = "next"
    /\ steady' = [k \in DOMAIN steady |-> IF k = i THEN page ELSE steady[k]]
    /\ page' = page
    /\ UNCHANGED <<config, i, retry_count, attempts, sleeps, res, prev, changed,
                   alert, evid, sent, track, sessions, delivery, tmp, elapsed,
                   pings, heartbeat, startups, cfg, hc, lost, trail>>

\* mutant: the map is saved at the end of the pass, not after each target
Persist_Batched ==
    /\ pc = "persist"
    /\ state' = Put(state, url, res[1])
    /\ pc' = "next"
    /\ steady' = [k \in DOMAIN steady |-> IF k = i THEN page ELSE steady[k]]
    /\ page' = page
    /\ UNCHANGED <<config, disk, i, retry_count, attempts, sleeps, exc, res, prev,
                   changed, alert, evid, sent, track, sessions, delivery, tmp,
                   file, elapsed, pings, heartbeat, startups, cfg, hc, lost,
                   trail>>

\* lines 393-395
Persist ==
    /\ pc = "persist"
    /\ state' = Put(state, url, res[1])
    /\ \E ok \in BOOLEAN : SaveState(state', ok)
    /\ pc' = "next"
    /\ steady' = [k \in DOMAIN steady |-> IF k = i THEN page ELSE steady[k]]
    /\ page' = page
    /\ trail' = Kept(Stored(trail, prev[1], res[1], alert))
    /\ UNCHANGED <<config, i, retry_count, attempts, sleeps, res, prev, changed,
                   alert, evid, sent, track, sessions, delivery, tmp, elapsed,
                   pings, heartbeat, startups, cfg, hc, lost>>

-----------------------------------------------------------------------------
(* the for loop and the end of a tick *)

\* for item in config: the next target
NextTarget ==
    /\ pc = "next"
    /\ i < Len(config)
    /\ i' = i + 1
    /\ pc' = "fetch"
    /\ ResetPoll
    /\ delivery' = "none"
    /\ heartbeat' = TargetDone(heartbeat, exc)
    /\ lost' = PollDone(lost)
    /\ trail' = PollOver(trail)
    /\ UNCHANGED <<config, state, disk, steady, track, tmp, file, elapsed, pings,
                   startups, cfg, hc>>

\* the for loop is exhausted
PassDone ==
    /\ pc = "next"
    /\ i = Len(config)
    /\ pc' = "digest"
    /\ ResetPoll
    /\ delivery' = "none"
    /\ heartbeat' = TargetDone(heartbeat, exc)
    /\ lost' = PollDone(lost)
    /\ trail' = PollOver(trail)
    /\ UNCHANGED <<config, state, disk, i, steady, track, tmp, file, elapsed,
                   pings, startups, cfg, hc>>

\* mutant: last_ping_time is not set after the digest
Digest_NoReset ==
    /\ pc = "digest"
    /\ IF elapsed >= ping_interval_hours
          THEN /\ \E ok \in BOOLEAN : slack_post(ok)
               /\ elapsed' = elapsed
               /\ pings' = pings + 1
          ELSE UNCHANGED <<delivery, elapsed, pings>>
    /\ pc' = "heartbeat"
    /\ UNCHANGED <<config, state, disk, i, retry_count, attempts, sleeps, exc,
                   res, prev, changed, alert, evid, sent, page, steady, track,
                   sessions, tmp, file, heartbeat, startups, cfg, hc, lost,
                   trail>>

\* lines 411-425: current_time is read; when hours_since_last_ping >=
\* ping_interval_hours the status message is given to slack_post and
\* last_ping_time = current_time
Digest ==
    /\ pc = "digest"
    /\ IF elapsed >= ping_interval_hours
          THEN /\ \E ok \in BOOLEAN : slack_post(ok)
               /\ elapsed' = 0
               /\ pings' = pings + 1
          ELSE UNCHANGED <<delivery, elapsed, pings>>
    /\ pc' = "heartbeat"
    /\ UNCHANGED <<config, state, disk, i, retry_count, attempts, sleeps, exc,
                   res, prev, changed, alert, evid, sent, page, steady, track,
                   sessions, tmp, file, heartbeat, startups, cfg, hc, lost,
                   trail>>

\* mutant: a failure to write the heartbeat ends monitor_loop
Heartbeat_Fatal ==
    /\ pc = "heartbeat"
    /\ \E ok \in BOOLEAN :
          /\ update_heartbeat(ok)
          /\ pc' = IF ok THEN "sleep" ELSE "dead"
    /\ UNCHANGED <<config, state, disk, i, retry_count, attempts, sleeps, exc,
                   res, prev, changed, alert, evid, sent, page, steady, track,
                   sessions, delivery, tmp, file, elapsed, pings, startups,
                   cfg, hc, lost, trail>>

\* line 428: update_heartbeat() catches its own failure
Heartbeat ==
    /\ pc = "heartbeat"
    /\ \E ok \in BOOLEAN : update_heartbeat(ok)
    /\ pc' = "sleep"
    /\ UNCHANGED <<config, state, disk, i, retry_count, attempts, sleeps, exc,
                   res, prev, changed, alert, evid, sent, page, steady, track,
                   sessions, delivery, tmp, file, elapsed, pings, startups,
                   cfg, hc, lost, trail>>

\* mutant: the start-up message is sent again when the next pass begins
Sleep_Announce ==
    /\ pc = "sleep"
    /\ pc' = "fetch"
    /\ i' = 1
    /\ pings' = 0
    /\ \E ok \in BOOLEAN : slack_post(ok)
    /\ startups' = startups + 1
    /\ heartbeat' = NoBeat
    /\ UNCHANGED <<config, state, disk, retry_count, attempts, sleeps, exc, res,
                   prev, changed, alert, evid, sent, page, steady, track,
                   sessions, tmp, file, elapsed, cfg, hc, lost, trail>>

\* line 430: await asyncio.sleep(POLL_SECONDS), then the next pass
Sleep ==
    /\ pc = "sleep"
    /\ pc' = "fetch"
    /\ i' = 1
    /\ pings' = 0
    /\ delivery' = "none"
    /\ heartbeat' = NoBeat
    /\ UNCHANGED <<config, state, disk, retry_count, attempts, sleeps, exc, res,
                   prev, changed, alert, evid, sent, page, steady, track,
                   sessions, tmp, file, elapsed, startups, cfg, hc, lost,
                   trail>>

Next ==
    \/ Startup
    \/ FetchSuccess
    \/ FetchCrashRetry
    \/ FetchRaise
    \/ BackoffDone
    \/ CheckOneReturns
    \/ CheckOneRaises
    \/ Baseline
    \/ Decide
    \/ EvidenceMkdirFails
    \/ EvidenceCapture
    \/ Notify
    \/ Persist
    \/ NextTarget
    \/ PassDone
    \/ Digest
    \/ Heartbeat
    \/ Sleep

Spec == Init /\ [][Next]_vars

-----------------------------------------------------------------------------
(* Events that end the process *)

\* KeyboardInterrupt / cancellation of monitor_loop at an await: the exception
\* leaves every invocation of check_one (each finally clause runs) and
\* monitor_loop, whose handlers do not catch it (lines 433-437)
Interrupt ==
    /\ pc \notin {"stopped", "crashed"}
    /\ \E h \in HeldChoices :
          sessions' = Unwind(IF pc = "fetch" THEN Enter(h) ELSE sessions)
    /\ pc' = "stopped"
    /\ UNCHANGED <<config, state, disk, i, retry_count, attempts, sleeps, exc,
                   res, prev, changed, alert, evid, sent, page, steady, track,
                   delivery, tmp, file, elapsed, pings, heartbeat, startups,
                   cfg, hc, lost, trail>>

\* the process is killed: nothing more runs
Crash ==
    /\ pc \notin {"stopped", "crashed"}
    /\ pc' = "crashed"
    /\ lost' = IF "restart" \in track /\ pc = "persist" /\ alert
                THEN <<[i |-> i, obs |-> res[1], seen |-> FALSE,
                        insync |-> url \in DOMAIN disk /\ prev = <<disk[url]>>]>>
                ELSE PollDone(lost)
    /\ UNCHANGED <<config, state, disk, i, retry_count, attempts, sleeps, exc,
                   res, prev, changed, alert, evid, sent, page, steady, track,
                   sessions, delivery, tmp, file, elapsed, pings, heartbeat,
                   startups, cfg, hc, trail>>

\* no optional record is kept
ProcInit == file = "ok" /\ track = {} /\ InitProgram /\ steady = EmptyMap

\* the sessions of check_one are recorded; the process starts with an empty
\* state file and one or two entries that have one marker list each
SessInit ==
    /\ file = "ok"
    /\ track = {"sessions"}
    /\ InitProgram
    /\ Len(config) <= 2
    /\ \A k \in 1..Len(config) : config[k] \in {T2, T3}
    /\ disk = EmptyMap
    /\ steady = EmptyMap

ProcNext == Next \/ Interrupt \/ Crash

\* the killed process is started again with the same configuration: its memory
\* is new, the files are as they were left
Restart ==
    /\ pc = "crashed"
    /\ pc' = "start"
    /\ state' = EmptyMap
    /\ i' = 1
    /\ ResetPoll
    /\ delivery' = "none"
    /\ elapsed' = 0
    /\ pings' = 0
    /\ heartbeat' = NoBeat
    /\ startups' = 0
    /\ UNCHANGED <<config, disk, steady, track, file, tmp, cfg, hc, lost, trail>>

\* the interrupted alerts are kept; the process starts with one or two entries
RestartInit == file = "ok" /\ track = {"restart"} /\ InitProgram /\ steady = EmptyMap

RestartNext == Next \/ Crash \/ Restart

\* the program, killed and started again any number of times
RestartSpec == RestartInit /\ [][RestartNext]_vars

\* the program with the events that end the process
ProcSpec == ProcInit /\ [][ProcNext]_vars

SessSpec == SessInit /\ [][ProcNext]_vars

-----------------------------------------------------------------------------
(* save_state, lines 48-52, statement by statement *)

\* mutant: no temp file, STATE_FILE itself is opened for writing
open_tmp_InPlace(ok) ==
    /\ tmp' = IF ok THEN <<[whole |-> FALSE, map |-> state]>> ELSE tmp
    /\ file' = IF ok THEN "bad_json" ELSE file
    /\ disk' = IF ok THEN EmptyMap ELSE disk

\* lines 49-50: open(tmp, "w") creates the temp file or cuts it to length 0
open_tmp(ok) ==
    /\ tmp' = IF ok THEN <<[whole |-> FALSE, map |-> state]>> ELSE tmp
    /\ file' = file
    /\ disk' = disk

\* line 51 and the end of the with statement: the document is written and the
\* file closed; a failure leaves a part of the document in the temp file
json_dump(ok) ==
    /\ tmp' = IF ok THEN <<[whole |-> TRUE, map |-> state]>> ELSE tmp
    /\ file' = file
    /\ disk' = disk

\* line 52: os.replace(tmp, STATE_FILE) puts the temp file in the place of
\* STATE_FILE in one step, or fails and changes nothing
os_replace(ok) ==
    /\ tmp' = IF ok THEN <<>> ELSE tmp
    /\ file' = IF ~ok THEN file ELSE IF tmp[1].whole THEN "ok" ELSE "bad_json"
    /\ disk' = IF ~ok THEN disk ELSE IF tmp[1].whole THEN tmp[1].map ELSE EmptyMap

\* monitor_loop has stored an observation in the map and calls save_state(state)
SaveCall ==
    /\ pc = "idle"
    /\ state' \in StateFiles(config)
    /\ pc' = "save_open"
    /\ exc' = "none"
    /\ UNCHANGED <<config, disk, i, retry_count, attempts, sleeps, res, prev,
                   changed, alert, evid, sent, page, steady, track, sessions,
                   delivery, file, tmp, elapsed, pings, heartbeat, startups,
                   cfg, hc, lost, trail>>

SaveOpen ==
    /\ pc = "save_open"
    /\ \E ok \in BOOLEAN :
          /\ open_tmp(ok)
          /\ pc' = IF ok THEN "save_dump" ELSE "idle"
          /\ exc' = IF ok THEN exc ELSE "os"
    /\ UNCHANGED <<config, state, i, retry_count, attempts, sleeps, res, prev,
                   changed, alert, evid, sent, page, steady, track, sessions,
                   delivery, elapsed, pings, heartbeat, startups, cfg, hc,
                   lost, trail>>

SaveDump ==
    /\ pc = "save_dump"
    /\ tmp # <<>>
    /\ \E ok \in BOOLEAN :
          /\ json_dump(ok)
          /\ pc' = IF ok THEN "save_replace" ELSE "idle"
          /\ exc' = IF ok THEN exc ELSE "os"
    /\ UNCHANGED <<config, state, i, retry_count, attempts, sleeps, res, prev,
                   changed, alert, evid, sent, page, steady, track, sessions,
                   delivery, elapsed, pings, heartbeat, startups, cfg, hc,
                   lost, trail>>

SaveReplace ==
    /\ pc = "save_replace"
    /\ tmp # <<>>
    /\ \E ok \in BOOLEAN :
          /\ os_replace(ok)
          /\ exc' = IF ok THEN exc ELSE "os"
    /\ pc' = "idle"
    /\ UNCHANGED <<config, state, i, retry_count, attempts, sleeps, res, prev,
                   changed, alert, evid, sent, page, steady, track, sessions,
                   delivery, elapsed, pings, heartbeat, startups, cfg, hc,
                   lost, trail>>

\* the maps of a running process and the files it has saved, for the
\* configurations of one entry
SaveInit ==
    /\ file = "ok"
    /\ track = {}
    /\ config \in Configs
    /\ Len(config) = 1
    /\ disk \in StateFiles(config)
    /\ state = disk
    /\ pc = "idle"
    /\ i = 1
    /\ retry_count = 0
    /\ attempts = 0
    /\ sleeps = <<>>
    /\ exc = "none"
    /\ res = <<>>
    /\ prev = <<>>
    /\ changed = FALSE
    /\ alert = FALSE
    /\ evid = "none"
    /\ sent = 0
    /\ page = <<>>
    /\ sessions = <<>>
    /\ delivery = "none"
    /\ tmp = <<>>
    /\ elapsed = 0
    /\ pings = 0
    /\ steady = EmptyMap
    /\ heartbeat = NoBeat
    /\ startups = 0
    /\ cfg = NoDoc
    /\ hc = NoCheck
    /\ lost = <<>>
    /\ trail = NoTrail

SaveNext == SaveCall \/ SaveOpen \/ SaveDump \/ SaveReplace \/ Crash

\* calls of save_state, with the process ending between any two statements
SaveSpec == SaveInit /\ [][SaveNext]_vars

-----------------------------------------------------------------------------
(* The start of the process with a state file in any condition *)

\* line 244: the exception of load_state leaves monitor_loop and asyncio.run
StartupFails ==
    /\ pc = "start"
    /\ load_state_raises
    /\ pc' = "dead"
    /\ exc' = "other"
    /\ UNCHANGED <<config, state, disk, i, retry_count, attempts, sleeps, res,
                   prev, changed, alert, evid, sent, page, steady, track,
                   sessions, delivery, file, tmp, elapsed, pings, heartbeat,
                   startups, cfg, hc, lost, trail>>

\* a file that is no complete document holds no map
LoadInit ==
    /\ file \in {"ok", "missing", "bad_json", "bad_utf8"}
    /\ track = {}
    /\ InitProgram
    /\ (file # "ok" => disk = EmptyMap)
    /\ steady = EmptyMap

LoadNext == Next \/ StartupFails

LoadSpec == LoadInit /\ [][LoadNext]_vars

-----------------------------------------------------------------------------
(* The program with the passing of time *)

\* an hour passes while the process waits in the sleep, a fetch or a backoff
HourPasses ==
    /\ pc \in {"sleep", "fetch", "backoff"}
    /\ elapsed < MaxHours
    /\ elapsed' = elapsed + 1
    /\ UNCHANGED <<config, state, disk, pc, i, retry_count, attempts, sleeps, exc,
                   res, prev, changed, alert, evid, sent, page, steady, track,
                   sessions, delivery, file, tmp, pings, pings, heartbeat,
                   startups, cfg, hc, lost, trail>>

\* the process starts with an empty state file and one or two entries that
\* have one marker list each
ClockInit ==
    /\ file = "ok"
    /\ track = {}
    /\ InitProgram
    /\ Len(config) <= 2
    /\ \A k \in 1..Len(config) : config[k] \in {T2, T3}
    /\ disk = EmptyMap
    /\ steady = EmptyMap

ClockNext == Next \/ HourPasses

ClockSpec == ClockInit /\ [][ClockNext]_vars

-----------------------------------------------------------------------------
(* The program with the digest of the snapshot in every observation *)

DetailInit == file = "ok" /\ track = {"hash"} /\ InitProgram /\ steady = EmptyMap

DetailSpec == DetailInit /\ [][Next]_vars

\* the same program, with the per-entry history
HistSpec == HistInit /\ [][Next]_vars

\* the loop is the only task of the process: whenever a step is possible, one is taken
FairSpec == Init /\ [][Next]_vars /\ WF_vars(Next)

-----------------------------------------------------------------------------
(* Properties *)

\* the pair the transition decision looks at
PairOf(o) == <<o.found_disappears, o.found_appears>>

\* the poll got an observation and compared it with a previous one
Evaluated == res # <<>> /\ prev # <<>>

DisappearCondition(it, p, c) ==
    \/ it.search_text_disappears = <<>>
    \/ (p.found_disappears # <<>> /\ c.found_disappears = <<>>)

AppearCondition(it, p, c) ==
    \/ it.search_text_appears = <<>>
    \/ (p.found_appears = <<>> /\ c.found_appears # <<>>)

QualifyingTransition(it, p, c) ==
    /\ DisappearCondition(it, p, c)
    /\ AppearCondition(it, p, c)
    /\ PairOf(c) # PairOf(p)

\* C1: for a target with a previous observation, a successful poll decides to
\* alert exactly when the disappear condition and the appear condition hold
\* (each vacuously for an empty list) and the pair differs from the previous one.
C1_AlertIff ==
    Evaluated => (alert <=> QualifyingTransition(item, prev[1], res[1]))

C1_Witness ==
    /\ pc = "next"
    /\ Evaluated
    /\ alert
    /\ item = T1
    /\ sent = 1

\* C2: when the url has no entry in the state map, the step after a successful
\* check sends no alert and captures no evidence; it stores the observation as
\* state[url], leaves the other entries alone and saves the map (the file holds
\* the new map unless the write failed).
C2_Baseline ==
    [][(pc = "evaluate" /\ url \notin DOMAIN state) =>
          /\ pc' = "next"
          /\ sent' = 0
          /\ evid' = "none"
          /\ alert' = FALSE
          /\ DOMAIN state' = (DOMAIN state) \cup {url}
          /\ state'[url] = res[1]
          /\ \A u \in DOMAIN state : state'[u] = state[u]
          /\ (disk' = state' \/ (exc' = "os" /\ disk' = disk))]_vars

C2_Witness ==
    /\ pc = "next"
    /\ res # <<>>
    /\ prev = <<>>
    /\ item.search_text_disappears = <<>>
    /\ res[1].found_appears # <<>>
    /\ state[url] = res[1]
    /\ disk = state
    /\ sent = 0

\* C3: at the end of every poll the alert notification has been sent once if the
\* poll was successful and its observation is a qualifying transition relative
\* to the previous observation in the state map, and not at all otherwise.
C3_ExactlyOnce ==
    pc = "next" =>
        sent = (IF Evaluated /\ QualifyingTransition(item, prev[1], res[1]) THEN 1 ELSE 0)

\* the first half of C4: a poll that finds the pair of the previous observation
\* decides no alert, sends none and captures no evidence
SteadyStateNoAlert ==
    (Evaluated /\ PairOf(res[1]) = PairOf(prev[1])) =>
        (~alert /\ sent = 0 /\ evid = "none")

\* the second half of C4: when the url has shown the same page content in every
\* successful fetch since the entry last stored an observation, a poll of the
\* entry that reads this content again produces no alert
SameContentNoAlert ==
    (/\ pc \in {"evidence", "notify", "persist"}
     /\ i \in DOMAIN steady
     /\ page # <<>>
     /\ steady[i] = page) => ~alert

\* C4: steady state is idempotent: the same pair as the previous observation
\* gives no alert and no evidence, and polling the same page content again
\* gives no further alert.
C4_SteadyState == SteadyStateNoAlert /\ SameContentNoAlert

\* C5: for a target with a disappear list, a poll that still finds one of the
\* disappear markers neither decides nor sends an alert, whatever appear
\* markers it finds.
C5_AllOrNothing ==
    (res # <<>> /\ item.search_text_disappears # <<>> /\ res[1].found_disappears # <<>>)
        => (~alert /\ sent = 0)

C5_Witness ==
    /\ pc = "next"
    /\ Evaluated
    /\ item = T1
    /\ prev[1].found_disappears = <<"A", "B">>
    /\ prev[1].found_appears = <<>>
    /\ res[1].found_disappears = <<"B">>
    /\ res[1].found_appears = <<"C">>
    /\ ~alert

\* C6: with an empty appear list the decision is: disappear markers were found
\* before and none is found now; with an empty disappear list it is: no appear
\* marker was found before and one is found now; the found values of the other
\* list play no part.
C6_VacuousTruth ==
    Evaluated =>
        /\ (item.search_text_appears = <<>> =>
              (alert <=> (prev[1].found_disappears # <<>> /\ res[1].found_disappears = <<>>)))
        /\ (item.search_text_disappears = <<>> =>
              (alert <=> (prev[1].found_appears = <<>> /\ res[1].found_appears # <<>>)))

C6_Witness ==
    /\ pc = "next"
    /\ Evaluated
    /\ alert
    /\ item.search_text_appears = <<>>
    /\ prev[1].found_appears # <<>>

\* C7: while check_one runs and when it raises, the state map, the state file
\* and the poll's alert and evidence records stay as they are; the raised
\* exception ends in the handlers with the for loop at the same target, and the
\* loop then goes on with the next target of the pass.
C7_FetchFailure ==
    [][/\ (pc \in {"fetch", "backoff", "raise"} =>
              (state' = state /\ disk' = disk /\ sent' = 0 /\ evid' = "none" /\ ~alert'))
       /\ (pc = "raise" => (pc' = "next" /\ i' = i /\ res' = <<>> /\ exc' = exc))
       /\ ((pc = "next" /\ i < Len(config)) => (pc' = "fetch" /\ i' = i + 1))]_vars

C7_Witness ==
    /\ pc = "next"
    /\ res = <<>>
    /\ exc = "crash"
    /\ url \in DOMAIN state
    /\ disk = state
    /\ i < Len(config)

\* C8: the loop never stops: every pass reaches the sleep again and again, and
\* every configured target is fetched afresh again and again, whatever fails.
C8_LoopNeverStops ==
    /\ []<>(pc = "sleep")
    /\ \A k \in 1..MaxTargets :
          []<>(k <= Len(config) => (pc = "fetch" /\ i = k /\ attempts = 0))

C8_Witness ==
    /\ pc = "sleep"
    /\ disk # state

\* the waits before retry 1, 2 and 3
BackoffSchedule == <<1, 2, 4>>

RECURSIVE SumSeq(_)
SumSeq(q) == IF q = <<>> THEN 0 ELSE q[1] + SumSeq(Tail(q))

\* C9: one poll makes at most 4 fetch attempts; a retry follows a crash only and
\* is preceded by a sleep of 1, 2, 4 seconds (7 at most in all); a crash of the
\* 4th attempt is raised to the caller, and an exception on its way to the
\* caller is not retried by any invocation.
C9_RetryBound ==
    /\ [](/\ attempts <= 4
          /\ Len(sleeps) <= 3
          /\ \A k \in 1..Len(sleeps) : sleeps[k] = BackoffSchedule[k]
          /\ SumSeq(sleeps) <= 7
          /\ (pc = "fetch" => (attempts = retry_count /\ Len(sleeps) = attempts))
          /\ (pc = "backoff" => (attempts = retry_count + 1 /\ Len(sleeps) = attempts))
          /\ ((pc = "backoff" \/ (pc = "fetch" /\ retry_count > 0)) => exc = "crash")
          /\ ((pc = "raise" /\ exc = "crash") => (attempts = 4 /\ sleeps = <<1, 2, 4>>)))
    /\ [][/\ (pc = "raise" => pc' = "next")
          /\ (attempts' > attempts => (pc = "fetch" /\ attempts' = attempts + 1))]_vars

C9_Witness ==
    /\ pc = "raise"
    /\ exc = "crash"
    /\ attempts = 4
    /\ sleeps = <<1, 2, 4>>

\* C10: a failed attempt whose failure is not a crash is raised at once, with no
\* sleep and no new invocation, also on a retry; it reaches monitor_loop's
\* handlers unchanged and the poll has no observation.
C10_NoRetryOfOtherFailures ==
    [][/\ ((pc = "fetch" /\ pc' # "loaded" /\ exc' # "crash") =>
              (pc' = "raise" /\ sleeps' = sleeps /\ retry_count' = retry_count))
       /\ ((pc = "raise" /\ exc # "crash") =>
              (pc' = "next" /\ exc' = exc /\ res' = <<>>))]_vars

C10_Witness ==
    /\ pc = "raise"
    /\ exc = "pw_timeout"
    /\ retry_count = 2
    /\ attempts = 3
    /\ sleeps = <<1, 2>>

\* check_one is running: between the first attempt and its return or raise
InCheckOne == pc \in {"fetch", "loaded", "backoff", "raise"}

\* C11: once check_one has returned, raised or been left by an interrupt, every
\* browser and every context that any of its invocations acquired has had its
\* close attempted.
C11_SessionsClosed ==
    (~InCheckOne /\ pc # "crashed") =>
        \A k \in DOMAIN sessions : sessions[k].closed = sessions[k].acquired

C11_Witness ==
    /\ pc = "stopped"
    /\ retry_count = 2
    /\ Len(sessions) = 3
    /\ sessions[1].acquired = {"browser", "context"}
    /\ sessions[2].acquired = {"browser", "context"}
    /\ sessions[3].acquired = {"browser"}
    /\ \A k \in 1..3 : sessions[k].closed = sessions[k].acquired

\* the observation of the current poll came from a retry
Retried == res # <<>> /\ Len(sessions) > 1

\* C12: a success on a retry has slept 1, 2, ... seconds before (1 + 2 for a
\* success on attempt 3), gives monitor_loop its observation, and the poll then
\* goes as after a first-attempt success: a baseline is stored without alert,
\* the alert decision is the qualifying transition, a changed observation is
\* stored and an alert sent exactly for an alert decision.
C12_RetrySuccess ==
    /\ [](pc = "loaded" => sleeps = SubSeq(BackoffSchedule, 1, attempts - 1))
    /\ [][(pc = "loaded" /\ pc' \notin {"stopped", "crashed"}) =>
              (pc' = "evaluate" /\ res' # <<>> /\ state' = state /\ disk' = disk)]_vars
    /\ [](Retried =>
            /\ (Evaluated => (alert <=> QualifyingTransition(item, prev[1], res[1])))
            /\ ((pc = "next" /\ prev = <<>>) => (state[url] = res[1] /\ sent = 0))
            /\ ((pc = "next" /\ Evaluated /\ ~changed) => sent = 0)
            /\ ((pc = "next" /\ Evaluated /\ changed /\ evid # "mkdir_failed") =>
                    (state[url] = res[1] /\ sent = (IF alert THEN 1 ELSE 0))))

C12_Witness ==
    /\ pc = "next"
    /\ Len(sessions) = 3
    /\ Evaluated
    /\ alert
    /\ sent = 1
    /\ state[url] = res[1]
    /\ disk = state

\* C13: a poll that decided to alert ends with the notification sent and the
\* observation stored, whatever failed while the evidence was captured.
C13_EvidenceBestEffort ==
    (pc = "next" /\ Evaluated /\ alert) => (sent = 1 /\ state[url] = res[1])

\* C14: slack_post never raises: after the start-up message the first poll
\* begins, after the alert message the observation is stored, with exc as it
\* was, and after the digest the heartbeat follows; a poll whose alert was not
\* delivered ends with its observation in the state map, the for loop goes on
\* with the next target, and a poll that finds the stored pair sends nothing.
C14_NotifyFailure ==
    /\ [][/\ (pc = "start" => pc' = "fetch")
          /\ (pc = "notify" => (pc' = "persist" /\ sent' = sent + 1 /\ exc' = exc))
          /\ (pc = "digest" => pc' = "heartbeat")
          /\ ((pc = "next" /\ i < Len(config)) => (pc' = "fetch" /\ i' = i + 1))]_vars
    /\ []((pc = "next" /\ sent = 1 /\ delivery = "failed") => state[url] = res[1])
    /\ []((Evaluated /\ PairOf(res[1]) = PairOf(prev[1])) => sent = 0)

C14_Witness ==
    /\ pc = "next"
    /\ sent = 1
    /\ delivery = "failed"
    /\ state[url] = res[1]
    /\ disk = state
    /\ i < Len(config)

\* C15: the targets are taken one at a time in configured order; a step that
\* changes the state map saves it in the same step (the file holds the new map
\* unless the write failed), the file changes in no other step, and the end of
\* the process changes nothing in it: after a completed store without a write
\* failure the file holds the map, the poll's observation included, before the
\* next fetch begins.
C15_OrderedImmediatePersistence ==
    /\ [][/\ (i' # i => \/ (pc = "next" /\ i' = i + 1 /\ pc' = "fetch")
                         \/ (pc = "sleep" /\ i' = 1 /\ i = Len(config)))
          /\ ((state' # state /\ pc # "start") =>
                 /\ pc \in {"evaluate", "persist"}
                 /\ (disk' = state' \/ (exc' = "os" /\ disk' = disk)))
          /\ (disk' # disk => (pc \in {"evaluate", "persist"} /\ disk' = state'))
          /\ (pc' \in {"stopped", "crashed"} => (disk' = disk /\ state' = state))
          /\ ((pc = "fetch" /\ attempts = 0 /\ i > 1) =>
                 (i' = i /\ pc' \in {"loaded", "backoff", "raise", "stopped", "crashed"}))]_vars
    /\ []((/\ pc = "next"
           /\ res # <<>>
           /\ (prev = <<>> \/ changed)
           /\ evid # "mkdir_failed"
           /\ exc = "none") => (disk = state /\ disk[url] = res[1]))

C15_Witness ==
    /\ pc = "crashed"
    /\ i = 2
    /\ config[1].url # config[2].url
    /\ config[1].url \in DOMAIN disk
    /\ disk = state
    /\ res # <<>>
    /\ changed
    /\ state[url] # res[1]

\* C16: after each successful evaluation the state map holds the observation
\* that the poll has just produced, and the state file holds it too unless the
\* write failed, also when the pair of found lists did not change.
C16_MostRecentObservation ==
    (pc = "next" /\ res # <<>> /\ evid # "mkdir_failed") =>
        /\ state[url] = res[1]
        /\ (exc = "none" => (url \in DOMAIN disk /\ disk[url] = res[1]))

\* C17: at every moment of save_state, a crash between two statements
\* included, STATE_FILE is a complete document, and a step that changes its
\* content puts the complete new map in the place of the previous one.
C17_AtomicSave ==
    /\ [](file = "ok")
    /\ [][disk' # disk => (pc = "save_replace" /\ disk' = state /\ file' = "ok")]_vars

C17_Witness ==
    /\ pc = "crashed"
    /\ tmp # <<>>
    /\ ~tmp[1].whole
    /\ tmp[1].map = state
    /\ disk # state
    /\ disk # EmptyMap
    /\ file = "ok"

\* C18: the state file is read once, at the start: the first step gives the
\* state map the content of a readable file and the empty map for a missing
\* or corrupt one, and begins the first poll; no later step reads the file
\* again (the map changes only by storing the observation of the current
\* poll); the process never ends because of the state file.
C18_LoadStateOnce ==
    /\ [][pc = "start" =>
              (pc' = "fetch" /\ state' = (IF file = "ok" THEN disk ELSE EmptyMap))]_vars
    /\ [][pc # "start" =>
              \/ state' = state
              \/ (pc \in {"evaluate", "persist"} /\ state' = Put(state, url, res[1]))]_vars
    /\ [](pc # "dead")

\* C19: when save_state fails in the store step, the step ends in the handlers
\* (exc = "os") with the new observation in the state map and the file as it
\* was, the loop goes on with the next target or the end of the pass, and every
\* later evaluation takes its previous observation from the state map, so a
\* poll that finds the stored pair again does not alert.
C19_SaveFailure ==
    /\ [][/\ ((pc \in {"evaluate", "persist"} /\ pc' = "next" /\ exc' = "os") =>
                 /\ url \in DOMAIN state'
                 /\ state'[url] = res[1]
                 /\ disk' = disk
                 /\ i' = i
                 /\ sent' = sent)
          /\ (pc = "next" => pc' \in {"fetch", "digest"})
          /\ ((pc = "evaluate" /\ url \in DOMAIN state) => prev' = <<state[url]>>)]_vars
    /\ []((Evaluated /\ PairOf(res[1]) = PairOf(prev[1])) => (~alert /\ sent = 0))

C19_Witness ==
    /\ pc = "next"
    /\ exc = "os"
    /\ Evaluated
    /\ alert
    /\ sent = 1
    /\ state[url] = res[1]
    /\ url \in DOMAIN disk
    /\ disk[url] = prev[1]

\* C20: a digest is sent only in the step after the full pass, only when 12
\* hours or more have passed since last_ping_time, and then always, whatever
\* failed in the pass; sending it sets the timer to the current time, the timer
\* is set nowhere else and otherwise only grows with the hours that pass, and no
\* pass sends more than one digest.
C20_DigestTimer ==
    /\ [][/\ (pc' = "digest" => (pc = "next" /\ i = Len(config)))
          /\ ((pc = "digest" /\ elapsed >= ping_interval_hours) =>
                 /\ pings' = pings + 1
                 /\ elapsed' = 0
                 /\ delivery' \in {"sent", "failed"}
                 /\ pc' = "heartbeat")
          /\ ((pc = "digest" /\ elapsed < ping_interval_hours) =>
                 (pings' = pings /\ elapsed' = elapsed /\ delivery' = delivery))
          /\ (pings' > pings => pc = "digest")
          /\ (elapsed' # elapsed =>
                 \/ elapsed' = elapsed + 1
                 \/ (pc = "digest" /\ elapsed >= ping_interval_hours /\ elapsed' = 0))]_vars
    /\ [](pings <= 1)

C20_Witness ==
    /\ pc = "heartbeat"
    /\ pings = 1
    /\ elapsed = 0
    /\ delivery = "sent"
    /\ Len(config) = 2
    /\ DOMAIN state = {"u1"}

-----------------------------------------------------------------------------
(* The heartbeat of a tick *)

\* the calls of update_heartbeat and the handled exceptions of a tick are kept
BeatInit == file = "ok" /\ track = {"heartbeat"} /\ InitProgram /\ steady = EmptyMap

BeatSpec == BeatInit /\ [][Next]_vars

\* C21: update_heartbeat is called exactly once in every tick: only in the step
\* that follows the digest check, which follows the last target of the pass,
\* and leads to the sleep; the tick sleeps with one call made whether or not a
\* handler has run for a target of the tick, and whether the write succeeded or
\* was caught and logged; the loop goes on to the next pass
C21_HeartbeatOncePerTick ==
    [][/\ heartbeat'.writes # heartbeat.writes =>
            \/ pc = "heartbeat" /\ pc' = "sleep"
                 /\ heartbeat.writes = 0 /\ heartbeat'.writes = 1
                 /\ heartbeat'.outcome \in {"written", "warned"}
            \/ pc = "sleep" /\ pc' = "fetch" /\ heartbeat'.writes = 0
       /\ pc' = "digest" /\ pc # "digest" => pc = "next" /\ i = Len(config)
       /\ pc' = "heartbeat" /\ pc # "heartbeat" => pc = "digest"
       /\ pc = "digest" => heartbeat.writes = 0 /\ pc' = "heartbeat"
       /\ pc = "heartbeat" => pc' = "sleep" /\ heartbeat'.writes = 1
       /\ pc = "sleep" => heartbeat.writes = 1 /\ pc' = "fetch" /\ i' = 1
       /\ pc \notin {"heartbeat", "sleep"} /\ pc' # "sleep" => heartbeat'.writes = 0
      ]_vars

\* a tick in which a handler has run and the heartbeat write has failed is asleep
C21_Witness ==
    /\ pc = "sleep"
    /\ heartbeat.errors
    /\ heartbeat.writes = 1
    /\ heartbeat.outcome = "warned"

-----------------------------------------------------------------------------
(* The start-up message *)

\* C22: the start-up message is given to slack_post once in a process run: in
\* the step that leaves the start with the state loaded, before any fetch
\* attempt; whatever its delivery, the count stays one in every later state of
\* the loop
C22_StartupOnce ==
    [][/\ startups' # startups =>
            /\ pc = "start" /\ pc' = "fetch"
            /\ startups = 0 /\ startups' = 1
            /\ state' = load_state
            /\ attempts = 0 /\ attempts' = 0
            /\ delivery' \in {"sent", "failed"}
       /\ pc' \notin {"start", "dead"} => startups' = 1
       /\ attempts' > attempts => startups = 1
      ]_vars

\* an observation has been stored, a later poll has loaded its page, and the
\* count is still one
C22_Witness ==
    /\ startups = 1
    /\ pc = "loaded"
    /\ DOMAIN state # {}
    /\ url \in DOMAIN state
    /\ url \notin DOMAIN disk

-----------------------------------------------------------------------------
(* The process from its first statement: config = load_config() *)

\* line 243: load_config returns the normalised entries
LoadConfigReturns ==
    /\ pc = "boot"
    /\ ~load_config_raises(cfg)
    /\ config' = load_config(cfg)
    /\ pc' = "start"
    /\ UNCHANGED <<state, disk, i, retry_count, attempts, sleeps, exc, res, prev,
                   changed, alert, evid, sent, page, steady, track, sessions,
                   delivery, file, tmp, elapsed, pings, heartbeat, startups,
                   cfg, hc, lost, trail>>

\* line 243: the exception of load_config leaves monitor_loop and asyncio.run
\* (lines 433-437 catch KeyboardInterrupt only)
LoadConfigRaises ==
    /\ pc = "boot"
    /\ load_config_raises(cfg)
    /\ pc' = "dead"
    /\ UNCHANGED <<config, state, disk, i, retry_count, attempts, sleeps, exc,
                   res, prev, changed, alert, evid, sent, page, steady, track,
                   sessions, delivery, file, tmp, elapsed, pings, heartbeat,
                   startups, cfg, hc, lost, trail>>

\* CONFIG_FILE holds one of the documents, there is no state file yet
ConfInit ==
    /\ cfg \in Docs
    /\ config = <<>>
    /\ file = "missing"
    /\ disk = EmptyMap
    /\ track = {"heartbeat"}
    /\ steady = EmptyMap
    /\ pc = "boot"
    /\ InitLocals

\* load_config alone
ConfNext == LoadConfigReturns \/ LoadConfigRaises

ConfSpec == ConfInit /\ [][ConfNext]_vars

\* load_config and the program after it
BootNext == ConfNext \/ Next

\* the documents with two entries are those whose second entry has none of the
\* two new keys
BootInit ==
    /\ ConfInit
    /\ Len(items(cfg)) = 2 => ~has_new_format(items(cfg)[2])

BootSpec == BootInit /\ [][BootNext]_vars

-----------------------------------------------------------------------------
(* Invalid target lists *)

\* the value at key k of the entry is absent or the empty list
NoMarkers(it, k) == k \in DOMAIN it => it[k] = List(<<>>)

\* an entry that is invalid: no url, neither format, the old shape with an
\* unknown mode or with no marker, the new shape with no marker in either list
InvalidEntry(it) ==
    \/ "url" \notin DOMAIN it
    \/ ~("search_text" \in DOMAIN it /\ "mode" \in DOMAIN it)
         /\ "search_text_disappears" \notin DOMAIN it
         /\ "search_text_appears" \notin DOMAIN it
    \/ "search_text" \in DOMAIN it /\ "mode" \in DOMAIN it
         /\ (it.mode \notin {"appears", "disappears"} \/ it.search_text = List(<<>>))
    \/ ~("search_text" \in DOMAIN it /\ "mode" \in DOMAIN it)
         /\ NoMarkers(it, "search_text_disappears")
         /\ NoMarkers(it, "search_text_appears")

\* a target list that is invalid: urls missing or empty, or an invalid entry
InvalidDoc(doc) ==
    \/ "urls" \notin DOMAIN doc
    \/ doc.urls = <<>>
    \/ \E k \in 1..Len(doc.urls) : InvalidEntry(doc.urls[k])

\* C23: with an invalid target list load_config raises and the process ends
\* there: the only step is the one to the end, it changes nothing else, and at
\* the end no message has been given to slack_post, no fetch attempt has been
\* made, there is no state file or temporary file and no call of
\* update_heartbeat; nothing happens after it
C23_InvalidConfigFatal ==
    [][/\ pc = "boot" /\ InvalidDoc(cfg) =>
            /\ pc' = "dead"
            /\ UNCHANGED <<config, state, disk, i, retry_count, attempts, sleeps, exc,
                   res, prev, changed, alert, evid, sent, page, steady, track,
                   sessions, delivery, file, tmp, elapsed, pings, heartbeat,
                   startups, cfg, hc, lost, trail>>
       /\ pc' = "dead" =>
            /\ startups' = 0 /\ delivery' = "none" /\ sent' = 0 /\ pings' = 0
            /\ attempts' = 0
            /\ file' = "missing" /\ disk' = EmptyMap /\ tmp' = <<>>
            /\ heartbeat'.writes = 0
       /\ pc = "dead" => FALSE
      ]_vars

\* the process has ended at load_config because the second entry, in the old
\* shape, has an unknown mode
C23_Witness ==
    /\ pc = "dead"
    /\ Len(items(cfg)) = 2
    /\ has_old_format(items(cfg)[2])
    /\ items(cfg)[2].mode = "bogus"
    /\ "url" \in DOMAIN items(cfg)[2]
    /\ items(cfg)[2].search_text = Str("A")

-----------------------------------------------------------------------------
(* The entries load_config returns *)

\* load_config has returned config for the document cfg
Loaded == pc = "start" /\ cfg # NoDoc

\* a marker value as a list: a string is the one element, a list is itself
Listed(val, lst) ==
    /\ val.kind = "str" => lst = <<val.v>>
    /\ val.kind = "list" => lst = val.v

\* the entry in the new format that says the same as the old-shape entry
NewShape(it) ==
    IF it.mode = "disappears"
      THEN [url |-> it.url, search_text_disappears |-> it.search_text]
      ELSE [url |-> it.url, search_text_appears |-> it.search_text]

\* C24: an entry with search_text and mode comes back with both lists: for
\* mode 'disappears' the disappear list is search_text as a list (a string is
\* the one element, a list keeps its elements and order) and the appear list
\* is empty, for mode 'appears' the reverse; the lists are those load_config
\* gives the entry written in the new format
C24_OldFormatNormalised ==
    Loaded =>
        \A k \in 1..Len(config) :
            LET raw == cfg.urls[k]
                it == config[k]
            IN  "search_text" \in DOMAIN raw /\ "mode" \in DOMAIN raw =>
                    /\ "search_text_disappears" \in DOMAIN it
                    /\ "search_text_appears" \in DOMAIN it
                    /\ raw.mode = "disappears" =>
                           /\ Listed(raw.search_text, it.search_text_disappears)
                           /\ it.search_text_appears = <<>>
                    /\ raw.mode = "appears" =>
                           /\ Listed(raw.search_text, it.search_text_appears)
                           /\ it.search_text_disappears = <<>>
                    /\ raw.mode \in {"appears", "disappears"}
                    /\ ~load_config_raises([urls |-> <<NewShape(raw)>>])
                    /\ LET twin == load_config([urls |-> <<NewShape(raw)>>])[1]
                       IN  /\ it.search_text_disappears = twin.search_text_disappears
                           /\ it.search_text_appears = twin.search_text_appears

\* an old-shape entry with mode 'appears' and a list of two markers has been
\* loaded after another entry
C24_Witness ==
    /\ Loaded
    /\ Len(config) = 2
    /\ cfg.urls[2] = [url |-> "u1", search_text |-> List(<<"B", "A">>), mode |-> "appears"]
    /\ config[2].search_text_appears = <<"B", "A">>

\* C25: every entry that load_config returns has both keys, each a list, and
\* one of the lists is not empty; for an entry that is not in the old shape
\* each list is the given list unchanged, the given string as its one element,
\* or empty when the key is missing
C25_NormalisedEntries ==
    Loaded =>
        \A k \in 1..Len(config) :
            LET raw == cfg.urls[k]
                it == config[k]
            IN  /\ "search_text_disappears" \in DOMAIN it
                /\ "search_text_appears" \in DOMAIN it
                /\ it.search_text_disappears \in Seq({"", "A", "B", "C"})
                /\ it.search_text_appears \in Seq({"", "A", "B", "C"})
                /\ it.search_text_disappears # <<>> \/ it.search_text_appears # <<>>
                /\ ~("search_text" \in DOMAIN raw /\ "mode" \in DOMAIN raw) =>
                       \A key \in {"search_text_disappears", "search_text_appears"} :
                           IF key \in DOMAIN raw
                             THEN Listed(raw[key], it[key])
                             ELSE it[key] = <<>>

\* a new-format entry with a string for the disappear key and no appear key
\* has been loaded
C25_Witness ==
    /\ Loaded
    /\ Len(config) = 1
    /\ cfg.urls[1] = [url |-> "u1", search_text_disappears |-> Str("A")]
    /\ config[1].search_text_disappears = <<"A">>
    /\ config[1].search_text_appears = <<>>

-----------------------------------------------------------------------------
(* check_one, lines 193-213, with the snapshot as a text: a string is the
   sequence of its characters *)

\* longest snapshot that is explored
MaxText == 3

\* the characters of snapshots and markers
Chars == {"a", "A", "b"}

\* the snapshots get_text_snapshot can return
Texts == UNION {[1..n -> Chars] : n \in 0..MaxText}

\* the markers of the explored entries
Markers == {<<"a">>, <<"A">>, <<"a", "b">>, <<"b", "a">>}

\* the explored entries: up to two disappear markers, up to one appear marker
TextTargets ==
    {[url |-> "u1", search_text_disappears |-> d, search_text_appears |-> a] :
        d \in UNION {[1..n -> Markers] : n \in 0..2},
        a \in UNION {[1..n -> Markers] : n \in 0..1}}

\* str.lower() of a character
Lower(c) == IF c = "A" THEN "a" ELSE c

\* mutant: the comparison ignores case
Occurs_AnyCase(txt, snapshot) ==
    \E k \in 0..(Len(snapshot) - Len(txt)) :
        \A j \in 1..Len(txt) : Lower(snapshot[k + j]) = Lower(txt[j])

\* txt in snapshot
Occurs(txt, snapshot) ==
    \E k \in 0..(Len(snapshot) - Len(txt)) :
        \A j \in 1..Len(txt) : snapshot[k + j] = txt[j]

\* [txt for txt in lst if txt in snapshot]
FoundText(lst, snapshot) == SelectSeq(lst, LAMBDA txt : Occurs(txt, snapshot))

\* the dict check_one returns, lines 206-213
ObservationText(it, snapshot) ==
    [url |-> it.url,
     found_disappears |-> FoundText(it.search_text_disappears, snapshot),
     found_appears |-> FoundText(it.search_text_appears, snapshot),
     hash |-> hsh(snapshot)]

\* lines 193-213: the snapshot is read and evaluated, check_one returns
Evaluate ==
    /\ pc = "loaded"
    /\ \E snapshot \in Texts :
          /\ page' = <<snapshot>>
          /\ res' = <<ObservationText(item, snapshot)>>
    /\ pc' = "evaluate"
    /\ UNCHANGED <<config, state, disk, i, retry_count, attempts, sleeps, exc,
                   prev, changed, alert, evid, sent, steady, track, sessions,
                   delivery, file, tmp, elapsed, pings, heartbeat, startups,
                   cfg, hc, lost, trail>>

\* one entry, its page loaded; the state map is empty or holds the observation
\* of an earlier snapshot
EvalInit ==
    /\ file = "ok"
    /\ track = {}
    /\ config \in {<<t>> : t \in TextTargets}
    /\ state \in {EmptyMap} \cup
                  {"u1" :> ObservationText(config[1], s) : s \in {<<>>, <<"a">>, <<"a", "b">>}}
    /\ disk = state
    /\ pc = "loaded"
    /\ cfg = NoDoc
    /\ steady = EmptyMap
    /\ i = 1
    /\ retry_count = 0
    /\ attempts = 1
    /\ sleeps = <<>>
    /\ exc = "none"
    /\ res = <<>>
    /\ prev = <<>>
    /\ changed = FALSE
    /\ alert = FALSE
    /\ evid = "none"
    /\ sent = 0
    /\ page = <<>>
    /\ sessions = <<>>
    /\ delivery = "none"
    /\ tmp = <<>>
    /\ elapsed = 0
    /\ pings = 0
    /\ heartbeat = NoBeat
    /\ startups = 1
    /\ hc = NoCheck
    /\ lost = <<>>
    /\ trail = NoTrail

EvalNext == Evaluate

EvalSpec == EvalInit /\ [][EvalNext]_vars

\* out is lst without the markers that do not occur in the snapshot: the
\* markers that occur, each as often and in the order as in lst
Subsequence(out, lst, snapshot) ==
    \E f \in [1..Len(out) -> 1..Len(lst)] :
        /\ \A j \in 1..Len(out) : out[j] = lst[f[j]]
        /\ \A j, k \in 1..Len(out) : j < k => f[j] < f[k]
        /\ {f[j] : j \in 1..Len(out)} =
              {k \in 1..Len(lst) :
                  \E from \in 1..Len(snapshot), to \in 0..Len(snapshot) :
                      SubSeq(snapshot, from, to) = lst[k]}

\* C26: the observation check_one returns holds for each list the configured
\* markers that are substrings of the snapshot (upper and lower case are
\* different characters), in the order of the configuration; the evaluation
\* leaves the state map, the state file and the configuration as they are
C26_FoundLists ==
    [][pc = "loaded" /\ pc' = "evaluate" =>
          /\ Subsequence(res'[1].found_disappears, item.search_text_disappears,
                         page'[1])
          /\ Subsequence(res'[1].found_appears, item.search_text_appears, page'[1])
          /\ UNCHANGED <<config, state, disk, file, tmp, hc, lost, trail>>
      ]_vars

\* the snapshot bab has been evaluated for the disappear markers ab, ba: both
\* are found, in configured order, though ba comes first in the text
C26_Witness ==
    /\ pc = "evaluate"
    /\ page = << <<"b", "a", "b">> >>
    /\ item.search_text_disappears = << <<"a", "b">>, <<"b", "a">> >>
    /\ item.search_text_appears = << <<"A">> >>
    /\ res[1].found_disappears = << <<"a", "b">>, <<"b", "a">> >>
    /\ res[1].found_appears = <<>>
    /\ state # EmptyMap

-----------------------------------------------------------------------------
(* healthcheck.py *)

\* latest second of the clock and of the timestamps that are explored
MaxClock == 8

\* the values of POLL_SECONDS that are explored
PollChoices == {1, 2}

\* what the script can find at HEARTBEAT_FILE: no file, a file that cannot be
\* opened or read, text that is no ISO timestamp (the empty text too), and an
\* ISO timestamp of the second t, with a UTC offset as update_heartbeat writes
\* it or without one, with or without white space around it
HeartbeatFiles ==
    {[kind |-> "missing"], [kind |-> "unreadable"], [kind |-> "junk"]}
        \cup {[kind |-> "iso", offset |-> o, t |-> t, padded |-> p] :
                o \in BOOLEAN, t \in 0..MaxClock, p \in BOOLEAN}

\* line 25: f.read().strip()
strip(f) == [f EXCEPT !.padded = FALSE]

\* line 28: datetime.fromisoformat(timestamp_str): <<>> when it raises
\* ValueError, else the datetime (aware or naive)
fromisoformat(timestamp_str) ==
    IF timestamp_str.kind = "iso" /\ ~timestamp_str.padded
      THEN <<[aware |-> timestamp_str.offset, t |-> timestamp_str.t]>>
      ELSE <<>>

\* mutant: the limit is one poll interval
MAX_AGE_SECONDS_One(poll) == poll

\* line 15: MAX_AGE_SECONDS = POLL_SECONDS * 3
MAX_AGE_SECONDS(poll) == poll * 3

\* lines 17-45: the exit status of the script
ExitStatus(f, poll, current_time) ==
    IF f.kind = "missing" THEN 1                     \* lines 19-21
    ELSE IF f.kind = "unreadable" THEN 1             \* open/read raises, lines 43-45
    ELSE LET heartbeat_time == fromisoformat(strip(f))
         IN  IF heartbeat_time = <<>> THEN 1         \* ValueError, lines 43-45
             ELSE IF ~heartbeat_time[1].aware THEN 1 \* TypeError at line 34
             ELSE IF current_time - heartbeat_time[1].t > MAX_AGE_SECONDS(poll)
                    THEN 1                           \* lines 36-38
                    ELSE 0                           \* lines 40-41

\* the script runs
HealthCheck ==
    /\ hc.exit = -1
    /\ hc' = [hc EXCEPT !.exit = ExitStatus(hc.HEARTBEAT_FILE, hc.POLL_SECONDS,
                                            hc.current_time)]
    /\ UNCHANGED <<config, state, disk, pc, i, retry_count, attempts, sleeps, exc,
                   res, prev, changed, alert, evid, sent, page, steady, track,
                   sessions, delivery, file, tmp, elapsed, pings, heartbeat,
                   startups, cfg, lost, trail>>

\* the script is about to run; the monitor is not looked at
HealthInit ==
    /\ hc \in [HEARTBEAT_FILE : HeartbeatFiles, POLL_SECONDS : PollChoices,
                current_time : 0..MaxClock, exit : {-1}]
    /\ file = "missing"
    /\ track = {}
    /\ config = <<T2>>
    /\ disk = EmptyMap
    /\ pc = "idle"
    /\ cfg = NoDoc
    /\ steady = EmptyMap
    /\ state = EmptyMap
    /\ i = 1
    /\ retry_count = 0
    /\ attempts = 0
    /\ sleeps = <<>>
    /\ exc = "none"
    /\ res = <<>>
    /\ prev = <<>>
    /\ changed = FALSE
    /\ alert = FALSE
    /\ evid = "none"
    /\ sent = 0
    /\ page = <<>>
    /\ sessions = <<>>
    /\ delivery = "none"
    /\ tmp = <<>>
    /\ elapsed = 0
    /\ pings = 0
    /\ heartbeat = NoBeat
    /\ startups = 0
    /\ lost = <<>>
    /\ trail = NoTrail

HealthNext == HealthCheck

HealthSpec == HealthInit /\ [][HealthNext]_vars

\* C27: the script exits with 0 exactly when the heartbeat file exists, can be
\* read, holds a timestamp (white space around it aside) whose age can be
\* taken, and the age is at most three times POLL_SECONDS; in every other case
\* it exits with 1
C27_HealthyIff ==
    hc # NoCheck /\ hc.exit # -1 =>
        LET f == hc.HEARTBEAT_FILE
        IN  /\ hc.exit \in {0, 1}
            /\ hc.exit = 0 <=>
                  /\ f.kind = "iso"
                  /\ f.offset
                  /\ hc.current_time - f.t <= 3 * hc.POLL_SECONDS

\* the script has exited with 0 for a heartbeat exactly three poll intervals old
C27_Witness ==
    /\ hc # NoCheck
    /\ hc.exit = 0
    /\ hc.POLL_SECONDS = 2
    /\ hc.HEARTBEAT_FILE.kind = "iso"
    /\ hc.HEARTBEAT_FILE.padded
    /\ hc.current_time - hc.HEARTBEAT_FILE.t = 6

-----------------------------------------------------------------------------
(* The order of evidence, notification and save, and a restart in between *)

\* the poll of the entry whose alert was interrupted has returned the same
\* found lists again and is about to be compared
SamePollAgain ==
    /\ pc = "evaluate"
    /\ lost # <<>>
    /\ ~lost[1].seen
    /\ lost[1].i = i
    /\ PairOf(res[1]) = PairOf(lost[1].obs)

\* no other entry of the configuration has the url of the current entry
Unshared == \A k \in 1..Len(config) : k # i => config[k].url # url

-----------------------------------------------------------------------------
(* Repeated transitions of one target: lines 288-317 and 393-395 over several
   ticks, with the record of the entries' earlier polls kept *)

\* the run starts with an empty state file and keeps the record of earlier polls
TrailInit ==
    /\ file = "ok"
    /\ track = {"trail"}
    /\ InitProgram
    /\ disk = EmptyMap
    /\ steady = EmptyMap

TrailSpec == TrailInit /\ [][Next]_vars

\* C29: when an alert has already been given to slack_post for a target in this
\* run and a later poll of it shows a qualifying transition against the
\* observation in the state map, the poll raises the alert again: the decision
\* does not look at earlier alerts.
C29_OscillationReAlerts ==
    [][(/\ pc = "evaluate"
        /\ url \in DOMAIN state
        /\ trail[i].alerts >= 1
        /\ QualifyingTransition(item, state[url], res[1]))
       => (alert' /\ pc' = "evidence")]_vars

\* the second alert of one target in one run has been given to slack_post; the
\* observation stored between the two was one that did not alert
C29_Witness ==
    /\ pc = "persist"
    /\ alert
    /\ sent = 1
    /\ trail[i].alerts = 2
    /\ QualifyingTransition(item, prev[1], res[1])

\* the target has both lists
BothLists(it) == it.search_text_disappears # <<>> /\ it.search_text_appears # <<>>

\* every disappear marker found before is gone and no appear marker is found
Vanishing(p, c) ==
    p.found_disappears # <<>> /\ c.found_disappears = <<>> /\ c.found_appears = <<>>

\* C30: for a target with both lists, a poll at which every found disappear
\* marker is gone while no appear marker is found raises no alert and stores
\* its observation as state[url]; a later poll that finds an appear marker
\* against that stored observation raises no alert either.
C30_SameStepOnly ==
    /\ [][(/\ pc = "evaluate"
           /\ url \in DOMAIN state
           /\ BothLists(item)
           /\ Vanishing(state[url], res[1]))
          => (~alert' /\ pc' = "persist")]_vars
    /\ [][(/\ pc = "persist"
           /\ BothLists(item)
           /\ ~alert
           /\ Vanishing(prev[1], res[1]))
          => (state'[url] = res[1] /\ sent' = 0)]_vars
    /\ [][(/\ pc = "evaluate"
           /\ url \in DOMAIN state
           /\ BothLists(item)
           /\ trail[i].vanished
           /\ PairOf(state[url]) = <<<<>>, <<>>>>
           /\ res[1].found_appears # <<>>)
          => (~alert' /\ pc' = "persist")]_vars
    /\ [](pc \in {"persist", "next"} /\ Evaluated /\ BothLists(item)
            /\ prev[1].found_disappears = <<>> => sent = 0)

\* the later poll: the target stored the observation without markers at its
\* earlier poll, now finds an appear marker and goes on to store without alert
C30_Witness ==
    /\ pc = "persist"
    /\ BothLists(item)
    /\ trail[i].vanished
    /\ PairOf(prev[1]) = <<<<>>, <<>>>>
    /\ res[1].found_appears # <<>>
    /\ ~alert
    /\ sent = 0

-----------------------------------------------------------------------------
(* Failed polls between successful ones, and entries that share a url: lines
   266-295 and 393-409 with each entry's latest own observation kept *)

\* the run starts with an empty state file and keeps, per entry, its latest
\* observation and whether check_one has raised for it since
PollsInit ==
    /\ file = "ok"
    /\ track = {"polls"}
    /\ InitProgram
    /\ disk = EmptyMap
    /\ steady = EmptyMap

PollsSpec == PollsInit /\ [][Next]_vars

\* the step of the current entry has compared an observation, and check_one had
\* raised for the entry at least once since its previous observation
AfterFailedPolls ==
    /\ pc = "next"
    /\ Evaluated
    /\ trail[i].last # <<>>
    /\ trail[i].failed

\* C31: when polls of a target have failed since its last successful poll, the
\* next successful poll is compared with the observation of that last
\* successful poll, which is the one in the state map, and sends exactly one
\* alert when the transition from it qualifies (and none otherwise). Stated for
\* a target whose url no other entry has.
C31_FailedPollsBetween ==
    (AfterFailedPolls /\ Unshared) =>
        /\ prev = trail[i].last
        /\ sent = (IF QualifyingTransition(item, trail[i].last[1], res[1])
                     THEN 1 ELSE 0)

\* the same poll, seen at the decision: it is compared with state[url] as the
\* failed polls left it and raises the alert exactly for a qualifying transition
C31_DecisionAfterFailedPolls ==
    (AfterFailedPolls /\ Unshared) =>
        (alert <=> QualifyingTransition(item, prev[1], res[1]))

C31_Reached ==
    /\ AfterFailedPolls
    /\ Unshared
    /\ alert
    /\ sent = 1

\* the step of the current entry has got an observation and is past the decision
Decided == res # <<>> /\ pc \in {"evidence", "notify", "persist", "next"}

\* C32: in a run started from an empty state file, the first observation of
\* every entry is stored as a baseline without comparison and without alert, and
\* every later observation of an entry is compared with the observation that
\* the same entry put in the state map last, also when two entries have one url.
C32_NoInterference ==
    /\ (Decided /\ trail[i].last = <<>>) => (prev = <<>> /\ ~alert /\ sent = 0)
    /\ (Decided /\ trail[i].last # <<>> /\ (pc # "next" \/ ~changed))
           => prev = trail[i].kept

\* the same for an entry whose url no other entry has
C32_UnsharedUrl == Unshared => C32_NoInterference

C32_UnsharedReached ==
    /\ Decided
    /\ Unshared
    /\ Len(config) = 2
    /\ trail[i].last # <<>>
    /\ alert
    /\ pc = "persist"
    /\ sent = 1

\* an entry's first observation of the run raises an alert
C32_FirstObservationAlerts ==
    /\ Decided
    /\ trail[i].last = <<>>
    /\ alert
    /\ sent = 1
    /\ config[1].search_text_disappears # config[2].search_text_disappears

-----------------------------------------------------------------------------
(* Fetch sessions during the retries of check_one: lines 156-187 and 214-240 *)

\* the invocations of check_one in the current poll that hold a browser or a
\* context they have not closed
OpenFrames == {k \in DOMAIN sessions : sessions[k].closed # sessions[k].acquired}

\* C33: at every moment of check_one at most one invocation holds an unclosed
\* browser or context, and when the backoff sleep of a crashed attempt starts
\* the attempt's browser and context are closed.
C33_AtMostOneSession ==
    /\ Cardinality(OpenFrames) <= 1
    /\ (pc = "backoff" => OpenFrames = {})

\* two invocations hold an unclosed browser and context at once: the crashed
\* attempt and its retry
C33_TwoSessionsOpen ==
    /\ pc = "loaded"
    /\ retry_count = 1
    /\ OpenFrames = {1, 2}
    /\ sessions[1].acquired = {"browser", "context"}
    /\ sessions[2].acquired = {"browser", "context"}

-----------------------------------------------------------------------------
(* The cleanup of check_one statement by statement: lines 206-240. Each frame
   of sessions also records the close calls that raised (track has "closing");
   retry_count is the invocation whose finally clause is running. *)

\* lines 193-213: the attempt loads the page and executes the return statement;
\* the finally clause runs before the value is handed to the caller
AttemptReturns ==
    /\ pc = "fetch"
    /\ \E snapshot \in Pages(url) : res' = <<Observation(item, snapshot)>>
    /\ sessions' = Enter({"browser", "context"})
    /\ attempts' = attempts + 1
    /\ exc' = "none"
    /\ pc' = "close_context"
    /\ UNCHANGED <<config, state, disk, i, retry_count, sleeps, prev, changed,
                   alert, evid, sent, page, steady, track, delivery, tmp, file,
                   elapsed, pings, heartbeat, startups, cfg, hc, lost, trail>>

\* lines 214-227: the attempt fails and the except clause re-raises (or the
\* failure is no PlaywrightError); the finally clause runs before it propagates
AttemptRaises ==
    /\ pc = "fetch"
    /\ \E e \in FetchErrors :
          /\ ~RetryAllowed(e, retry_count)
          /\ exc' = e
    /\ \E h \in Held : sessions' = Enter(h)
    /\ attempts' = attempts + 1
    /\ pc' = "close_context"
    /\ UNCHANGED <<config, state, disk, i, retry_count, sleeps, res, prev,
                   changed, alert, evid, sent, page, steady, track, delivery,
                   tmp, file, elapsed, pings, heartbeat, startups, cfg, hc,
                   lost, trail>>

\* the frame of the invocation whose finally clause is running, after the close
\* of resource r has returned (ok) or raised
Closed(r, ok) ==
    [sessions EXCEPT ![retry_count + 1] =
        IF r \notin @.acquired THEN @
        ELSE IF ok THEN [@ EXCEPT !.closed = @ \cup {r}]
        ELSE [@ EXCEPT !.failed = @ \cup {r}]]

\* mutant: a failure of context.close() leaves the finally clause and replaces
\* the outcome of check_one
context_close_Propagates ==
    /\ pc = "close_context"
    /\ \E ok \in BOOLEAN :
          /\ sessions' = Closed("context", ok)
          /\ IF ok \/ "context" \notin sessions[retry_count + 1].acquired
               THEN pc' = "close_browser" /\ UNCHANGED <<res, exc>>
               ELSE pc' = "raised" /\ res' = <<>> /\ exc' = "other"
    /\ UNCHANGED <<config, state, disk, i, retry_count, attempts, sleeps, prev,
                   changed, alert, evid, sent, page, steady, track, delivery,
                   tmp, file, elapsed, pings, heartbeat, startups, cfg, hc,
                   lost, trail>>

\* lines 230-234: if context: await context.close(), a failure logged as WARN
context_close ==
    /\ pc = "close_context"
    /\ \E ok \in BOOLEAN : sessions' = Closed("context", ok)
    /\ pc' = "close_browser"
    /\ UNCHANGED <<config, state, disk, i, retry_count, attempts, sleeps, exc,
                   res, prev, changed, alert, evid, sent, page, steady, track,
                   delivery, tmp, file, elapsed, pings, heartbeat, startups,
                   cfg, hc, lost, trail>>

\* lines 236-240: if browser: await browser.close(), a failure logged as WARN;
\* then the value or the failure goes to the caller: the enclosing invocation,
\* whose finally clause runs next (line 222), or monitor_loop
browser_close ==
    /\ pc = "close_browser"
    /\ \E ok \in BOOLEAN : sessions' = Closed("browser", ok)
    /\ IF retry_count > 0
         THEN pc' = "close_context" /\ retry_count' = retry_count - 1
         ELSE /\ pc' = IF res # <<>> THEN "returned" ELSE "raised"
              /\ retry_count' = retry_count
    /\ UNCHANGED <<config, state, disk, i, attempts, sleeps, exc, res, prev,
                   changed, alert, evid, sent, page, steady, track, delivery,
                   tmp, file, elapsed, pings, heartbeat, startups, cfg, hc,
                   lost, trail>>

\* one poll of one target, with the close calls free to fail
CleanupInit ==
    /\ file = "ok"
    /\ track = {"sessions", "closing"}
    /\ InitProgram
    /\ Len(config) = 1
    /\ disk = EmptyMap
    /\ steady = EmptyMap

CleanupNext ==
    \/ Startup
    \/ FetchCrashRetry
    \/ BackoffDone
    \/ AttemptReturns
    \/ AttemptRaises
    \/ context_close
    \/ browser_close

CleanupSpec == CleanupInit /\ [][CleanupNext]_vars

\* the finally clause of some invocation of check_one is running
InCleanup == pc \in {"close_context", "close_browser"}

\* C34: while the finally clauses of check_one run, whatever the close calls do,
\* the observation to return and the failure to raise stay what the attempt
\* produced; the browser close follows every context close, also a failed one;
\* a returning attempt hands its observation to monitor_loop and a failed one
\* its original failure, with the close of every held browser attempted.
C34_CleanupKeepsOutcome ==
    /\ [][InCleanup => (res' = res /\ exc' = exc)]_vars
    /\ [][pc = "close_context" =>
            (pc' = "close_browser" /\ retry_count' = retry_count)]_vars
    /\ [][pc = "close_browser" =>
            /\ pc' \in {"close_context", "returned", "raised"}
            /\ (pc' = "returned" <=> (retry_count = 0 /\ res # <<>>))
            /\ (pc' = "raised" <=> (retry_count = 0 /\ res = <<>> /\ exc # "none"))
            /\ ("browser" \in sessions[retry_count + 1].acquired =>
                  "browser" \in sessions'[retry_count + 1].closed
                                  \cup sessions'[retry_count + 1].failed)]_vars

\* the attempt timed out with browser and context held, context.close() raised,
\* browser.close() was still called, and the timeout reaches monitor_loop
C34_Witness ==
    /\ pc = "raised"
    /\ exc = "pw_timeout"
    /\ res = <<>>
    /\ Len(sessions) = 1
    /\ sessions[1].acquired = {"browser", "context"}
    /\ sessions[1].failed = {"context"}
    /\ sessions[1].closed = {"browser"}

-----------------------------------------------------------------------------
(* The reference decision of the tests against the decision of monitor_loop:
   src/test_monitor.py lines 9-39, src/monitor.py lines 288-317 *)

\* src/test_monitor.py lines 9-39
should_alert(disappears_list, appears_list, prev_found_disappears, prev_found_appears, curr_found_disappears, curr_found_appears) ==
    LET disappears_ok == IF disappears_list # <<>>
                           THEN Len(prev_found_disappears) > 0
                                /\ Len(curr_found_disappears) = 0
                           ELSE TRUE
        appears_ok    == IF appears_list # <<>>
                           THEN Len(prev_found_appears) = 0
                                /\ Len(curr_found_appears) > 0
                           ELSE TRUE
    IN  disappears_ok /\ appears_ok

\* marker lists as the arguments of should_alert, and found lists: the six
\* arguments are independent of each other
ListArgs == {<<>>, <<"A">>, <<"A", "B">>}

FoundArgs == {<<>>, <<"A">>, <<"B">>, <<"A", "B">>, <<"B", "A">>}

\* one decision: a target that load_config accepts (lines 101-103: not both
\* lists empty), a stored observation and a new one
RefInit ==
    /\ file = "ok"
    /\ track = {}
    /\ \E d \in ListArgs, a \in ListArgs :
          /\ d # <<>> \/ a # <<>>
          /\ config = <<[url |-> "u1", search_text_disappears |-> d,
                         search_text_appears |-> a]>>
    /\ \E pd \in FoundArgs, pa \in FoundArgs :
          state = "u1" :> [url |-> "u1", found_disappears |-> pd,
                           found_appears |-> pa, hash |-> {}]
    /\ \E cd \in FoundArgs, ca \in FoundArgs :
          res = <<[url |-> "u1", found_disappears |-> cd, found_appears |-> ca,
                   hash |-> {}]>>
    /\ disk = state
    /\ pc = "evaluate"
    /\ cfg = NoDoc
    /\ steady = EmptyMap
    /\ i = 1
    /\ retry_count = 0
    /\ attempts = 0
    /\ sleeps = <<>>
    /\ exc = "none"
    /\ prev = <<>>
    /\ changed = FALSE
    /\ alert = FALSE
    /\ evid = "none"
    /\ sent = 0
    /\ page = <<>>
    /\ sessions = <<>>
    /\ delivery = "none"
    /\ tmp = <<>>
    /\ elapsed = 0
    /\ pings = 0
    /\ heartbeat = NoBeat
    /\ startups = 1
    /\ hc = NoCheck
    /\ lost = <<>>
    /\ trail = NoTrail

RefNext == Decide

RefSpec == RefInit /\ [][RefNext]_vars

\* should_alert on what the decision of monitor_loop has just looked at
Reference ==
    should_alert(item.search_text_disappears, item.search_text_appears,
                 prev[1].found_disappears, prev[1].found_appears,
                 res[1].found_disappears, res[1].found_appears)

\* C35: for a target with at least one marker list, should_alert gives the
\* decision monitor_loop has made on the same lists and observations, and
\* whenever should_alert is true the pair has changed.
C35_ReferenceAgrees ==
    prev # <<>> =>
        /\ alert <=> Reference
        /\ Reference => changed

\* both conditions satisfied on a target with both lists: the loop alerts
C35_Witness ==
    /\ pc = "evidence"
    /\ prev # <<>>
    /\ alert
    /\ Reference
    /\ item.search_text_disappears = <<"A", "B">>
    /\ item.search_text_appears = <<"A">>

-----------------------------------------------------------------------------
(* The state file against the state map: lines 41-52, 244, 282-286, 393-395 *)

\* the step calls save_state and the call raises (lines 285 and 395)
SaveFails == pc \in {"evaluate", "persist"} /\ exc' = "os"

\* the loop is running: load_state has returned
Running == pc \notin {"start", "dead"}

\* C36: the state map starts as what load_state reads from the file, a missing
\* or unparsable file counting as the empty map; from then on, as long as no
\* save fails, the map and the file agree after every step, in particular
\* between two target steps and at the end of a tick; and a step that stores
\* an observation writes the whole map, the current url with the new
\* observation and every other entry as it was.
C36_FileEqualsMap ==
    /\ [][(pc = "start" /\ Running') => (state' = load_state /\ state' = load_state')]_vars
    /\ [][(Running /\ state = load_state /\ ~SaveFails) => state' = load_state']_vars
    /\ [][(Running /\ state = load_state /\ ~SaveFails /\ state' # state) =>
            /\ file' = "ok"
            /\ disk' = Put(state, url, res[1])
            /\ \A u \in DOMAIN state \ {url} : disk'[u] = state[u]]_vars

\* between two target steps after a store of the second target: the file is
\* the map, with the first target's entry in it
C36_Witness ==
    /\ pc = "next"
    /\ i = 2
    /\ changed
    /\ exc = "none"
    /\ file = "ok"
    /\ DOMAIN state = {"u1", "u2"}
    /\ disk = state
    /\ state[url] = res[1]

====
